---- MODULE Spec2Model ----
(***************************************************************************)
(* A model of the ferris-lang pipeline: the scanner (src/src/lexer.rs),    *)
(* the recursive-descent parser (src/src/parser.rs), the tree-walking      *)
(* interpreter (src/src/interpreter.rs) and run_program (src/src/main.rs). *)
(*                                                                         *)
(* Text is a sequence of one-character strings.  A Number (f64 in the      *)
(* source) is an exact fraction <<num, den>> in lowest terms with den > 0; *)
(* on the small values the model draws this agrees with f64 up to          *)
(* rounding, and the epsilon comparison of the source is then exact        *)
(* equality.  An integer literal of more than nine digits is the triple    *)
(* <<m, 1, e>> for m * 10^e (the literals drawn are exact in f64); it is   *)
(* read, negated, shown and cast to i64, and no arithmetic is done on it.  *)
(*                                                                         *)
(* The interpreter is a machine of activations: one step runs the head of  *)
(* a `for stmt in statements` loop or the first act of execute_stmt on a   *)
(* statement.  `last` records the latest such step and the configuration   *)
(* it started from.                                                        *)
(***************************************************************************)
EXTENDS Integers, Sequences, FiniteSets, TLC

VARIABLES input, position, line, tokens, current, ast, globals, frames,
          result, stdout, stderr, pc, last

vars == <<input, position, line, tokens, current, ast, globals, frames,
          result, stdout, stderr, pc, last>>

\* ------------------------------------------------------------------ bounds

\* Number literals of the generated sources are 0..MaxNum.
MaxNum == 2
\* Counting loops run over 0..MaxCount.
MaxCount == 3

\* Generated texts are at most MaxPieces pieces long (LexPieces,
\* IdentPieces, OperatorPieces).
MaxPieces == 4

\* ------------------------------------------------------------- characters

Digits == <<"0", "1", "2", "3", "4", "5", "6", "7", "8", "9">>

DigitSet == {Digits[i] : i \in 1..10}

Letters == {"a", "b", "c", "d", "e", "f", "g", "h", "i", "j", "k", "l", "m",
            "n", "o", "p", "q", "r", "s", "t", "u", "v", "w", "x", "y", "z"}

\* char::is_whitespace on the characters the model uses
is_whitespace(ch) == ch \in {" ", "\n", "\t", "\r"}

is_ascii_digit(ch) == ch \in DigitSet

is_alphabetic(ch) == ch \in Letters

is_alphanumeric(ch) == is_alphabetic(ch) \/ is_ascii_digit(ch)

\* Option<char>::None
NoChar == "None"

DigitVal(ch) == (CHOOSE i \in 1..10 : Digits[i] = ch) - 1

\* ---------------------------------------------------------------- numbers

Abs(i) == IF i < 0 THEN -i ELSE i

RECURSIVE Gcd(_, _)
Gcd(a, b) == IF b = 0 THEN a ELSE Gcd(b, a % b)

\* the fraction n/d (d # 0) in lowest terms with a positive denominator
Rat(n, d) ==
    LET g == Gcd(Abs(n), Abs(d))
        s == IF d < 0 THEN -1 ELSE 1
    IN  <<(s * n) \div g, (s * d) \div g>>

RatInt(i) == <<i, 1>>

RatAdd(l, r) == Rat(l[1] * r[2] + r[1] * l[2], l[2] * r[2])

RatSub(l, r) == Rat(l[1] * r[2] - r[1] * l[2], l[2] * r[2])

RatMul(l, r) == Rat(l[1] * r[1], l[2] * r[2])

\* r # 0
RatDiv(l, r) == Rat(l[1] * r[2], l[2] * r[1])

RatNeg(l) == [l EXCEPT ![1] = -l[1]]

RatLess(l, r) == l[1] * r[2] < r[1] * l[2]

RatIsZero(l) == l[1] = 0

\* f64::fract() == 0.0
RatIsInt(l) == l[2] = 1

RECURSIVE Pow10(_)
Pow10(k) == IF k = 0 THEN 1 ELSE 10 * Pow10(k - 1)

RECURSIVE DigitsValue(_)
DigitsValue(s) ==
    IF s = <<>> THEN 0
    ELSE 10 * DigitsValue(SubSeq(s, 1, Len(s) - 1)) + DigitVal(s[Len(s)])

\* the zeros a run of digits ends with
RECURSIVE TrailingZeros(_)
TrailingZeros(s) ==
    IF s = <<>> \/ s[Len(s)] # "0" THEN 0
    ELSE 1 + TrailingZeros(SubSeq(s, 1, Len(s) - 1))

\* str::parse::<f64>() on a run of digits and dots that starts with a digit,
\* with unwrap_or(0.0): more than one dot does not parse
ParseF64(text) ==
    LET dots == {i \in 1..Len(text) : text[i] = "."}
    IN  IF dots = {} /\ Len(text) > 9
        THEN <<DigitsValue(SubSeq(text, 1, Len(text) - TrailingZeros(text))), 1,
               TrailingZeros(text)>>
        ELSE IF dots = {} THEN RatInt(DigitsValue(text))
        ELSE IF Cardinality(dots) = 1
        THEN LET d == CHOOSE i \in dots : TRUE
                 ip == SubSeq(text, 1, d - 1)
                 fp == SubSeq(text, d + 1, Len(text))
             IN  Rat(DigitsValue(ip) * Pow10(Len(fp)) + DigitsValue(fp),
                     Pow10(Len(fp)))
        ELSE RatInt(0)

\* the decimal digits of a natural number
RECURSIVE NatText(_)
NatText(i) ==
    IF i < 10 THEN <<Digits[i + 1]>>
    ELSE NatText(i \div 10) \o <<Digits[(i % 10) + 1]>>

IntText(i) == IF i < 0 THEN <<"-">> \o NatText(-i) ELSE NatText(i)

Zeros(k) == [i \in 1..k |-> "0"]

\* the decimal text of a Number with zero fractional part
IntegralText(n) == IntText(n[1]) \o Zeros(IF Len(n) = 3 THEN n[3] ELSE 0)

\* i64::MAX and the digits of i64::MIN
I64MaxDigits ==
    <<"9", "2", "2", "3", "3", "7", "2", "0", "3", "6", "8", "5", "4", "7", "7",
      "5", "8", "0", "7">>

I64MinDigits ==
    <<"9", "2", "2", "3", "3", "7", "2", "0", "3", "6", "8", "5", "4", "7", "7",
      "5", "8", "0", "8">>

\* a > b for two runs of digits without leading zeros
RECURSIVE DigitsGreater(_, _)
DigitsGreater(a, b) ==
    IF Len(a) # Len(b) THEN Len(a) > Len(b)
    ELSE IF a = <<>> THEN FALSE
    ELSE IF a[1] # b[1] THEN DigitVal(a[1]) > DigitVal(b[1])
    ELSE DigitsGreater(Tail(a), Tail(b))

\* format!("{}", n as i64) for n with zero fractional part: the cast
\* saturates at i64::MAX and i64::MIN
I64Text(n) ==
    LET digits == IntegralText([n EXCEPT ![1] = Abs(n[1])])
    IN  IF n[1] < 0
        THEN <<"-">> \o (IF DigitsGreater(digits, I64MinDigits) THEN I64MinDigits
                         ELSE digits)
        ELSE IF DigitsGreater(digits, I64MaxDigits) THEN I64MaxDigits
        ELSE digits

\* ----------------------------------------------------------- evaluation

\* The one value of a set written {e(x) : x \in {v}}: v is computed once and
\* e reads it as x.
The(S) == CHOOSE v \in S : TRUE

\* ------------------------------------------------------------------ lexer

Token(type, val, ln) == [token_type |-> type, val |-> val, line |-> ln]

peek(inp, pos) == IF pos < Len(inp) THEN inp[pos + 1] ELSE NoChar

peek_next(inp, pos) == IF pos + 1 < Len(inp) THEN inp[pos + 2] ELSE NoChar

\* advance that keeps no count of lines
advance_same_line(inp, pos, ln) == <<pos + 1, ln>>

\* the scanner's cursor after advance(): <<position, line>>
advance(inp, pos, ln) ==
    <<pos + 1, IF peek(inp, pos) = "\n" THEN ln + 1 ELSE ln>>

\* skip_line_comment that leaves the text of the comment to the scanner
skip_line_comment_nothing(inp, pos, ln) == <<pos, ln>>

RECURSIVE skip_line_comment(_, _, _)
skip_line_comment(inp, pos, ln) ==
    IF peek(inp, pos) = NoChar \/ peek(inp, pos) = "\n" THEN <<pos, ln>>
    ELSE The({skip_line_comment(inp, a[1], a[2]) : a \in {advance(inp, pos, ln)}})

RECURSIVE skip_whitespace(_, _, _)
skip_whitespace(inp, pos, ln) ==
    IF peek(inp, pos) = NoChar THEN <<pos, ln>>
    ELSE IF is_whitespace(peek(inp, pos))
    THEN The({skip_whitespace(inp, a[1], a[2]) : a \in {advance(inp, pos, ln)}})
    ELSE IF peek(inp, pos) = "/" /\ peek_next(inp, pos) = "/"
    THEN \* skip both slashes, then the rest of the line
         The({skip_whitespace(inp, c[1], c[2]) :
                c \in {skip_line_comment(inp, pos + 2, ln)}})
    ELSE <<pos, ln>>

\* the text read and the cursor after it: <<text, position, line>>
RECURSIVE read_number(_, _, _, _)
read_number(inp, pos, ln, number) ==
    IF peek(inp, pos) # NoChar
       /\ (is_ascii_digit(peek(inp, pos)) \/ peek(inp, pos) = ".")
    THEN The({read_number(inp, a[1], a[2], n) :
                a \in {advance(inp, pos, ln)},
                n \in {Append(number, peek(inp, pos))}})
    ELSE <<number, pos, ln>>

RECURSIVE read_identifier(_, _, _, _)
read_identifier(inp, pos, ln, identifier) ==
    IF peek(inp, pos) # NoChar
       /\ (is_alphanumeric(peek(inp, pos)) \/ peek(inp, pos) = "_")
    THEN The({read_identifier(inp, a[1], a[2], i) :
                a \in {advance(inp, pos, ln)},
                i \in {Append(identifier, peek(inp, pos))}})
    ELSE <<identifier, pos, ln>>

\* the characters an escape sequence stands for
Escaped(escaped) ==
    CASE escaped = "n" -> <<"\n">>
      [] escaped = "t" -> <<"\t">>
      [] escaped = "r" -> <<"\r">>
      [] escaped = "\\" -> <<"\\">>
      [] escaped = "\"" -> <<"\"">>
      [] OTHER -> <<"\\", escaped>>

RECURSIVE read_string_loop(_, _, _, _)

\* a variant of the loop whose escape arm advances past the escaped character
\* whether or not there is one
read_string_loop_skip_two(inp, pos, ln, string) ==
    IF peek(inp, pos) = NoChar THEN <<string, pos, ln>>
    ELSE IF peek(inp, pos) = "\""
    THEN The({<<string, a[1], a[2]>> : a \in {advance(inp, pos, ln)}})
    ELSE IF peek(inp, pos) = "\\"
    THEN The({The({read_string_loop(inp, b[1], b[2], s) :
                     b \in {advance(inp, a[1], a[2])},
                     s \in {IF peek(inp, a[1]) # NoChar
                            THEN string \o Escaped(peek(inp, a[1]))
                            ELSE string}}) :
                a \in {advance(inp, pos, ln)}})
    ELSE The({read_string_loop(inp, a[1], a[2], s) :
                a \in {advance(inp, pos, ln)},
                s \in {Append(string, peek(inp, pos))}})

\* the loop of read_string, entered after the opening quote
read_string_loop(inp, pos, ln, string) ==
    IF peek(inp, pos) = NoChar THEN <<string, pos, ln>>
    ELSE IF peek(inp, pos) = "\""
    THEN The({<<string, a[1], a[2]>> : a \in {advance(inp, pos, ln)}})
    ELSE IF peek(inp, pos) = "\\"
    THEN The({IF peek(inp, a[1]) # NoChar
              THEN The({read_string_loop(inp, b[1], b[2], s) :
                          b \in {advance(inp, a[1], a[2])},
                          s \in {string \o Escaped(peek(inp, a[1]))}})
              ELSE read_string_loop(inp, a[1], a[2], string) :
                a \in {advance(inp, pos, ln)}})
    ELSE The({read_string_loop(inp, a[1], a[2], s) :
                a \in {advance(inp, pos, ln)},
                s \in {Append(string, peek(inp, pos))}})

read_string(inp, pos, ln) ==
    The({read_string_loop(inp, a[1], a[2], <<>>) : a \in {advance(inp, pos, ln)}})

Keyword(identifier) ==
    CASE identifier = <<"l", "e", "t">> -> "Let"
      [] identifier = <<"i", "f">> -> "If"
      [] identifier = <<"e", "l", "s", "e">> -> "Else"
      [] identifier = <<"w", "h", "i", "l", "e">> -> "While"
      [] identifier = <<"p", "r", "i", "n", "t">> -> "Print"
      [] OTHER -> "Identifier"

SingleChar(ch) ==
    CASE ch = "+" -> "Plus"
      [] ch = "-" -> "Minus"
      [] ch = "*" -> "Multiply"
      [] ch = "(" -> "LeftParen"
      [] ch = ")" -> "RightParen"
      [] ch = "{" -> "LeftBrace"
      [] ch = "}" -> "RightBrace"
      [] ch = ";" -> "Semicolon"

\* a returned token and the cursor after it
Scanned(tok, pos, ln) ==
    [panic |-> FALSE, token |-> tok, position |-> pos, line |-> ln,
     message |-> <<>>]

\* panic!("Unexpected character '{}' at line {}", ch, line), with the cursor
\* where the scanner stopped
Panicked(ch, pos, ln, at) ==
    [panic |-> TRUE, token |-> Token("Eof", <<>>, at), position |-> pos,
     line |-> ln, message |-> <<"Unexpected character", ch, at>>]

\* the operator arms without the look at the next character
TwoChar_no_lookahead(inp, pos, ln, two, one) ==
    The({IF one = "" THEN Panicked(peek(inp, pos), a[1], a[2], ln)
         ELSE Scanned(Token(one, <<>>, ln), a[1], a[2]) :
           a \in {advance(inp, pos, ln)}})

\* `=`, `!`, `<`, `>`: with `=` next the two-character token `two`, else the
\* token `one`, and a panic where there is none (`!`)
TwoChar(inp, pos, ln, two, one) ==
    The({IF peek(inp, a[1]) = "="
         THEN The({Scanned(Token(two, <<>>, ln), b[1], b[2]) :
                     b \in {advance(inp, a[1], a[2])}})
         ELSE IF one = "" THEN Panicked(peek(inp, pos), a[1], a[2], ln)
         ELSE Scanned(Token(one, <<>>, ln), a[1], a[2]) :
           a \in {advance(inp, pos, ln)}})

\* next_token after skip_whitespace, at cursor <<pos, ln>>
RECURSIVE next_token(_, _, _)
scan_token(inp, pos, ln) ==
    LET ch == peek(inp, pos) IN
    IF ch = NoChar THEN Scanned(Token("Eof", <<>>, ln), pos, ln)
    ELSE IF ch \in {"+", "-", "*", "(", ")", "{", "}", ";"}
    THEN The({Scanned(Token(SingleChar(ch), <<>>, ln), a[1], a[2]) :
                a \in {advance(inp, pos, ln)}})
    ELSE IF ch = "/"
    THEN The({IF peek(inp, a[1]) = "/"
              THEN The({next_token(inp, c[1], c[2]) :
                          c \in {skip_line_comment(inp, a[1] + 1, a[2])}})
              ELSE Scanned(Token("Divide", <<>>, ln), a[1], a[2]) :
                a \in {advance(inp, pos, ln)}})
    ELSE IF ch = "=" THEN TwoChar(inp, pos, ln, "Equal", "Assign")
    ELSE IF ch = "!" THEN TwoChar(inp, pos, ln, "NotEqual", "")
    ELSE IF ch = "<" THEN TwoChar(inp, pos, ln, "LessEqual", "Less")
    ELSE IF ch = ">" THEN TwoChar(inp, pos, ln, "GreaterEqual", "Greater")
    ELSE IF ch = "\""
    THEN The({Scanned(Token("String", s[1], ln), s[2], s[3]) :
                s \in {read_string(inp, pos, ln)}})
    ELSE IF is_ascii_digit(ch)
    THEN The({Scanned(Token("Number", ParseF64(n[1]), ln), n[2], n[3]) :
                n \in {read_number(inp, pos, ln, <<>>)}})
    ELSE IF is_alphabetic(ch) \/ ch = "_"
    THEN The({Scanned(Token(Keyword(i[1]),
                            IF Keyword(i[1]) = "Identifier" THEN i[1] ELSE <<>>,
                            ln), i[2], i[3]) :
                i \in {read_identifier(inp, pos, ln, <<>>)}})
    ELSE Panicked(ch, pos, ln, ln)

next_token(inp, pos, ln) ==
    The({scan_token(inp, w[1], w[2]) : w \in {skip_whitespace(inp, pos, ln)}})

\* where each call of next_token in the loop of tokenize finds the first
\* character of its token: the position skip_whitespace stops at (the end of
\* the text for Eof), for the tokens returned before Eof or a panic
RECURSIVE token_starts(_, _, _)
token_starts(inp, pos, ln) ==
    The({IF t.panic THEN <<>>
         ELSE IF t.token.token_type = "Eof" THEN <<w[1]>>
         ELSE <<w[1]>> \o token_starts(inp, t.position, t.line) :
           w \in {skip_whitespace(inp, pos, ln)},
           t \in {next_token(inp, pos, ln)}})

\* the loop of tokenize: the tokens pushed, or the panic that ended it
RECURSIVE tokenize_loop(_, _, _, _)
tokenize_loop(inp, pos, ln, toks) ==
    The({IF t.panic THEN [panic |-> TRUE, tokens |-> <<>>, message |-> t.message]
         ELSE IF t.token.token_type = "Eof"
         THEN [panic |-> FALSE, tokens |-> Append(toks, t.token),
               message |-> <<>>]
         ELSE tokenize_loop(inp, t.position, t.line, Append(toks, t.token)) :
           t \in {next_token(inp, pos, ln)}})

\* Lexer::new(input).tokenize()
tokenize(inp) == tokenize_loop(inp, 0, 1, <<>>)

\* ----------------------------------------------------------------- parser

\* Expr
NumberExpr(n) == [k |-> "Number", n |-> n]

StringExpr(s) == [k |-> "String", s |-> s]

IdentifierExpr(name) == [k |-> "Identifier", name |-> name]

BinaryExpr(left, operator, right) ==
    [k |-> "Binary", left |-> left, operator |-> operator, right |-> right]

UnaryExpr(operator, operand) ==
    [k |-> "Unary", operator |-> operator, operand |-> operand]

\* Stmt; an Option is the empty sequence (None) or a sequence of one (Some)
ExpressionStmt(expr) == [k |-> "Expression", expr |-> expr]

LetStmt(name, value) == [k |-> "Let", name |-> name, value |-> value]

AssignmentStmt(name, value) ==
    [k |-> "Assignment", name |-> name, value |-> value]

IfStmt(condition, then_stmt, else_stmt) ==
    [k |-> "If", condition |-> condition, then_stmt |-> then_stmt,
     else_stmt |-> else_stmt]

WhileStmt(condition, body) ==
    [k |-> "While", condition |-> condition, body |-> body]

BlockStmt(statements) == [k |-> "Block", statements |-> statements]

PrintStmt(expr) == [k |-> "Print", expr |-> expr]

\* Parser::peek: the token under the cursor, Eof at line 0 past the end
parser_peek(toks, cur) ==
    IF cur < Len(toks) THEN toks[cur + 1] ELSE Token("Eof", <<>>, 0)

\* Parser::advance: the cursor after it
parser_advance(toks, cur) == IF cur < Len(toks) THEN cur + 1 ELSE cur

\* a Result of a parsing function together with the cursor it leaves
ParseOk(node, cur) == [ok |-> TRUE, node |-> node, current |-> cur, err |-> <<>>]

\* Err(format!("{} at line {}", message, self.peek().line))
ParseErr(message, toks, cur) ==
    [ok |-> FALSE, node |-> <<>>, current |-> cur,
     err |-> <<message, parser_peek(toks, cur).line>>]

\* consume that steps over the token it rejects
consume_past(toks, cur, expected, message) ==
    IF parser_peek(toks, cur).token_type = expected
    THEN ParseOk(<<>>, parser_advance(toks, cur))
    ELSE ParseErr(message, toks, parser_advance(toks, cur))

consume(toks, cur, expected, message) ==
    IF parser_peek(toks, cur).token_type = expected
    THEN ParseOk(<<>>, parser_advance(toks, cur))
    ELSE ParseErr(message, toks, cur)

\* the BinaryOp a token stands for at each level
EqualityOp(type) ==
    CASE type = "Equal" -> "Equal" [] type = "NotEqual" -> "NotEqual"

ComparisonOp(type) ==
    CASE type = "Greater" -> "Greater"
      [] type = "GreaterEqual" -> "GreaterEqual"
      [] type = "Less" -> "Less"
      [] type = "LessEqual" -> "LessEqual"

TermOp(type) == CASE type = "Minus" -> "Subtract" [] type = "Plus" -> "Add"

FactorOp(type) ==
    CASE type = "Divide" -> "Divide" [] type = "Multiply" -> "Multiply"

\* The parsing functions call one another through `call`, which names the
\* function; `acc` is what a loop has collected so far.
RECURSIVE call(_, _, _, _)

expression(toks, cur) == call("equality", toks, cur, <<>>)

\* one level of the binary ladder: `let mut expr = self.next()?;` then the
\* while loop that folds `expr = Binary(expr, operator, right)` to the left
equality_loop(toks, cur, expr) ==
    LET type == parser_peek(toks, cur).token_type IN
    IF type \in {"Equal", "NotEqual"}
    THEN The({IF ~right.ok THEN right
              ELSE call("equality_loop", toks, right.current,
                        BinaryExpr(expr, EqualityOp(type), right.node)) :
                right \in {call("comparison", toks, parser_advance(toks, cur), <<>>)}})
    ELSE ParseOk(expr, cur)

equality(toks, cur) ==
    The({IF ~expr.ok THEN expr
         ELSE call("equality_loop", toks, expr.current, expr.node) :
           expr \in {call("comparison", toks, cur, <<>>)}})

comparison_loop(toks, cur, expr) ==
    LET type == parser_peek(toks, cur).token_type IN
    IF type \in {"Greater", "GreaterEqual", "Less", "LessEqual"}
    THEN The({IF ~right.ok THEN right
              ELSE call("comparison_loop", toks, right.current,
                        BinaryExpr(expr, ComparisonOp(type), right.node)) :
                right \in {call("term", toks, parser_advance(toks, cur), <<>>)}})
    ELSE ParseOk(expr, cur)

comparison(toks, cur) ==
    The({IF ~expr.ok THEN expr
         ELSE call("comparison_loop", toks, expr.current, expr.node) :
           expr \in {call("term", toks, cur, <<>>)}})

\* a variant of term_loop that folds `*` and `/` at the level of `+` and `-`
term_loop_one_level(toks, cur, expr) ==
    LET type == parser_peek(toks, cur).token_type IN
    IF type \in {"Minus", "Plus", "Divide", "Multiply"}
    THEN The({IF ~right.ok THEN right
              ELSE call("term_loop", toks, right.current,
                        BinaryExpr(expr,
                                   IF type \in {"Minus", "Plus"} THEN TermOp(type)
                                   ELSE FactorOp(type), right.node)) :
                right \in {call("unary", toks, parser_advance(toks, cur), <<>>)}})
    ELSE ParseOk(expr, cur)

term_loop(toks, cur, expr) ==
    LET type == parser_peek(toks, cur).token_type IN
    IF type \in {"Minus", "Plus"}
    THEN The({IF ~right.ok THEN right
              ELSE call("term_loop", toks, right.current,
                        BinaryExpr(expr, TermOp(type), right.node)) :
                right \in {call("factor", toks, parser_advance(toks, cur), <<>>)}})
    ELSE ParseOk(expr, cur)

term(toks, cur) ==
    The({IF ~expr.ok THEN expr
         ELSE call("term_loop", toks, expr.current, expr.node) :
           expr \in {call("factor", toks, cur, <<>>)}})

\* a variant of factor_loop that folds to the right: the right operand is a
\* whole factor
factor_loop_right(toks, cur, expr) ==
    LET type == parser_peek(toks, cur).token_type IN
    IF type \in {"Divide", "Multiply"}
    THEN The({IF ~right.ok THEN right
              ELSE ParseOk(BinaryExpr(expr, FactorOp(type), right.node),
                           right.current) :
                right \in {call("factor", toks, parser_advance(toks, cur), <<>>)}})
    ELSE ParseOk(expr, cur)

factor_loop(toks, cur, expr) ==
    LET type == parser_peek(toks, cur).token_type IN
    IF type \in {"Divide", "Multiply"}
    THEN The({IF ~right.ok THEN right
              ELSE call("factor_loop", toks, right.current,
                        BinaryExpr(expr, FactorOp(type), right.node)) :
                right \in {call("unary", toks, parser_advance(toks, cur), <<>>)}})
    ELSE ParseOk(expr, cur)

factor(toks, cur) ==
    The({IF ~expr.ok THEN expr
         ELSE call("factor_loop", toks, expr.current, expr.node) :
           expr \in {call("unary", toks, cur, <<>>)}})

unary(toks, cur) ==
    IF parser_peek(toks, cur).token_type = "Minus"
    THEN The({IF ~operand.ok THEN operand
              ELSE ParseOk(UnaryExpr("Minus", operand.node), operand.current) :
                operand \in {call("unary", toks, parser_advance(toks, cur), <<>>)}})
    ELSE call("primary", toks, cur, <<>>)

\* `self.consume(RightParen, ..)?; Ok(expr)` of primary
CloseParen(toks, expr) ==
    The({IF ~c.ok THEN c ELSE ParseOk(expr.node, c.current) :
           c \in {consume(toks, expr.current, "RightParen",
                          "Expected ')' after expression")}})

primary(toks, cur) ==
    LET tok == parser_peek(toks, cur)
        type == tok.token_type
    IN  IF type = "Number"
        THEN ParseOk(NumberExpr(tok.val), parser_advance(toks, cur))
        ELSE IF type = "String"
        THEN ParseOk(StringExpr(tok.val), parser_advance(toks, cur))
        ELSE IF type = "Identifier"
        THEN ParseOk(IdentifierExpr(tok.val), parser_advance(toks, cur))
        ELSE IF type = "LeftParen"
        THEN The({IF ~expr.ok THEN expr ELSE CloseParen(toks, expr) :
                    expr \in {call("expression", toks, parser_advance(toks, cur), <<>>)}})
        ELSE ParseErr("Unexpected token", toks, cur)

\* `self.consume(token_type, message)?` after a parsed node r: r's node with
\* the cursor after the token
ThenConsume(toks, parsed, token_type, message) ==
    The({IF ~r.ok THEN r
         ELSE The({IF ~c.ok THEN c ELSE ParseOk(r.node, c.current) :
                     c \in {consume(toks, r.current, token_type, message)}}) :
           r \in {parsed}})

\* `let value = self.expression()?; self.consume(Semicolon, message)?;`
\* from cursor cur: the value and the cursor after the semicolon
ExprThenSemicolon(toks, cur, message) ==
    The({ThenConsume(toks, value, "Semicolon", message) :
           value \in {call("expression", toks, cur, <<>>)}})

\* the rest of let_statement after `let`: the name, `=`, the value, `;`
LetName(toks, cur) ==
    LET tok == parser_peek(toks, cur) IN
    IF tok.token_type # "Identifier"
    THEN ParseErr("Expected identifier after 'let'", toks, cur)
    ELSE The({IF ~c2.ok THEN c2
              ELSE The({IF ~value.ok THEN value
                        ELSE ParseOk(LetStmt(tok.val, value.node), value.current) :
                          value \in {ExprThenSemicolon(toks, c2.current,
                                         "Expected ';' after let statement")}}) :
                c2 \in {consume(toks, parser_advance(toks, cur), "Assign",
                                "Expected '=' after variable name")}})

let_statement(toks, cur) ==
    The({IF ~c1.ok THEN c1 ELSE LetName(toks, c1.current) :
           c1 \in {consume(toks, cur, "Let", "Expected 'let'")}})

\* `self.consume(keyword)?; self.consume(LeftParen)?; self.expression()?;`
\* `self.consume(RightParen)?`: the condition (or print argument) and the cursor
Parenthesized(toks, cur, keyword, m1, m2, m3) ==
    The({IF ~c1.ok THEN c1
         ELSE The({IF ~c2.ok THEN c2
                   ELSE The({ThenConsume(toks, expr, "RightParen", m3) :
                               expr \in {call("expression", toks, c2.current, <<>>)}}) :
                     c2 \in {consume(toks, c1.current, "LeftParen", m2)}}) :
           c1 \in {consume(toks, cur, keyword, m1)}})

print_statement(toks, cur) ==
    The({IF ~p.ok THEN p ELSE ParseOk(PrintStmt(p.node), p.current) :
           p \in {ThenConsume(toks,
                      Parenthesized(toks, cur, "Print", "Expected 'print'",
                                    "Expected '(' after 'print'",
                                    "Expected ')' after print expression"),
                      "Semicolon", "Expected ';' after print statement")}})

\* `let expr = self.expression()?; self.consume(Semicolon, ..)?;`
\* `Ok(Stmt::Expression(expr))`
\* a variant of the expression statement whose `;` may be left out
expression_statement_optional(toks, cur) ==
    The({IF ~expr.ok THEN expr
         ELSE ParseOk(ExpressionStmt(expr.node),
                      IF parser_peek(toks, expr.current).token_type = "Semicolon"
                      THEN parser_advance(toks, expr.current)
                      ELSE expr.current) :
           expr \in {call("expression", toks, cur, <<>>)}})

expression_statement(toks, cur) ==
    The({IF ~expr.ok THEN expr
         ELSE ParseOk(ExpressionStmt(expr.node), expr.current) :
           expr \in {ExprThenSemicolon(toks, cur, "Expected ';' after expression")}})

\* a variant of the else branch that gives the else of a nested if to the
\* outer one when no else of its own follows
ElseBranch_outer(toks, condition, then_stmt) ==
    IF parser_peek(toks, then_stmt.current).token_type = "Else"
    THEN The({IF ~else_stmt.ok THEN else_stmt
              ELSE ParseOk(IfStmt(condition.node, then_stmt.node,
                                  <<else_stmt.node>>), else_stmt.current) :
                else_stmt \in {call("statement", toks,
                                    parser_advance(toks, then_stmt.current), <<>>)}})
    ELSE IF then_stmt.node.k = "If" /\ then_stmt.node.else_stmt # <<>>
    THEN ParseOk(IfStmt(condition.node,
                        IfStmt(then_stmt.node.condition, then_stmt.node.then_stmt,
                               <<>>),
                        then_stmt.node.else_stmt), then_stmt.current)
    ELSE ParseOk(IfStmt(condition.node, then_stmt.node, <<>>), then_stmt.current)

\* the else branch of if_statement, after the then branch
ElseBranch(toks, condition, then_stmt) ==
    IF parser_peek(toks, then_stmt.current).token_type = "Else"
    THEN The({IF ~else_stmt.ok THEN else_stmt
              ELSE ParseOk(IfStmt(condition.node, then_stmt.node,
                                  <<else_stmt.node>>), else_stmt.current) :
                else_stmt \in {call("statement", toks,
                                    parser_advance(toks, then_stmt.current), <<>>)}})
    ELSE ParseOk(IfStmt(condition.node, then_stmt.node, <<>>), then_stmt.current)

if_statement(toks, cur) ==
    The({IF ~condition.ok THEN condition
         ELSE The({IF ~then_stmt.ok THEN then_stmt
                   ELSE ElseBranch(toks, condition, then_stmt) :
                     then_stmt \in {call("statement", toks, condition.current, <<>>)}}) :
           condition \in {Parenthesized(toks, cur, "If", "Expected 'if'",
                                        "Expected '(' after 'if'",
                                        "Expected ')' after if condition")}})

while_statement(toks, cur) ==
    The({IF ~condition.ok THEN condition
         ELSE The({IF ~body.ok THEN body
                   ELSE ParseOk(WhileStmt(condition.node, body.node), body.current) :
                     body \in {call("statement", toks, condition.current, <<>>)}}) :
           condition \in {Parenthesized(toks, cur, "While", "Expected 'while'",
                                        "Expected '(' after 'while'",
                                        "Expected ')' after while condition")}})

\* the while loop of block_statement, with the statements pushed so far
block_loop(toks, cur, statements) ==
    IF parser_peek(toks, cur).token_type \in {"RightBrace", "Eof"}
    THEN ParseOk(statements, cur)
    ELSE The({IF ~s.ok THEN s
              ELSE call("block_loop", toks, s.current, Append(statements, s.node)) :
                s \in {call("statement", toks, cur, <<>>)}})

block_statement(toks, cur) ==
    The({IF ~c1.ok THEN c1
         ELSE The({IF ~body.ok THEN body
                   ELSE ParseOk(BlockStmt(body.node), body.current) :
                     body \in {ThenConsume(toks,
                                   call("block_loop", toks, c1.current, <<>>),
                                   "RightBrace", "Expected '}' after block")}}) :
           c1 \in {consume(toks, cur, "LeftBrace", "Expected '{'")}})

\* the Identifier arm without `self.current = checkpoint`
IdentifierStatement_no_restore(toks, cur) ==
    LET tok == parser_peek(toks, cur)
    IN  The({IF parser_peek(toks, after).token_type = "Assign"
             THEN The({IF ~value.ok THEN value
                       ELSE ParseOk(AssignmentStmt(tok.val, value.node),
                                    value.current) :
                         value \in {ExprThenSemicolon(toks, parser_advance(toks, after),
                                        "Expected ';' after assignment")}})
             ELSE call("expression_statement", toks, after, <<>>) :
               after \in {parser_advance(toks, cur)}})

\* the Identifier arm of statement: an assignment when `=` follows the name,
\* otherwise the cursor goes back to the checkpoint
IdentifierStatement(toks, cur) ==
    LET tok == parser_peek(toks, cur)
        checkpoint == cur
    IN  The({IF parser_peek(toks, after).token_type = "Assign"
             THEN The({IF ~value.ok THEN value
                       ELSE ParseOk(AssignmentStmt(tok.val, value.node),
                                    value.current) :
                         value \in {ExprThenSemicolon(toks, parser_advance(toks, after),
                                        "Expected ';' after assignment")}})
             ELSE call("expression_statement", toks, checkpoint, <<>>) :
               after \in {parser_advance(toks, cur)}})

statement(toks, cur) ==
    LET type == parser_peek(toks, cur).token_type
    IN  IF type = "Let" THEN call("let_statement", toks, cur, <<>>)
        ELSE IF type = "If" THEN call("if_statement", toks, cur, <<>>)
        ELSE IF type = "While" THEN call("while_statement", toks, cur, <<>>)
        ELSE IF type = "Print" THEN call("print_statement", toks, cur, <<>>)
        ELSE IF type = "LeftBrace" THEN call("block_statement", toks, cur, <<>>)
        ELSE IF type = "Identifier" THEN IdentifierStatement(toks, cur)
        ELSE call("expression_statement", toks, cur, <<>>)

call(fn, toks, cur, acc) ==
    CASE fn = "statement" -> statement(toks, cur)
      [] fn = "let_statement" -> let_statement(toks, cur)
      [] fn = "if_statement" -> if_statement(toks, cur)
      [] fn = "while_statement" -> while_statement(toks, cur)
      [] fn = "print_statement" -> print_statement(toks, cur)
      [] fn = "block_statement" -> block_statement(toks, cur)
      [] fn = "block_loop" -> block_loop(toks, cur, acc)
      [] fn = "expression_statement" -> expression_statement(toks, cur)
      [] fn = "expression" -> expression(toks, cur)
      [] fn = "equality" -> equality(toks, cur)
      [] fn = "equality_loop" -> equality_loop(toks, cur, acc)
      [] fn = "comparison" -> comparison(toks, cur)
      [] fn = "comparison_loop" -> comparison_loop(toks, cur, acc)
      [] fn = "term" -> term(toks, cur)
      [] fn = "term_loop" -> term_loop(toks, cur, acc)
      [] fn = "factor" -> factor(toks, cur)
      [] fn = "factor_loop" -> factor_loop(toks, cur, acc)
      [] fn = "unary" -> unary(toks, cur)
      [] fn = "primary" -> primary(toks, cur)

RECURSIVE parse_loop(_, _, _)

\* parse with an `if` for its `while`: at most one statement
parse_loop_once(toks, cur, statements) ==
    IF parser_peek(toks, cur).token_type = "Eof" THEN ParseOk(statements, cur)
    ELSE The({IF ~s.ok THEN s
              ELSE ParseOk(Append(statements, s.node), s.current) :
                s \in {call("statement", toks, cur, <<>>)}})

\* parse that returns the statements parsed before the error
parse_loop_keep_prefix(toks, cur, statements) ==
    IF parser_peek(toks, cur).token_type = "Eof" THEN ParseOk(statements, cur)
    ELSE The({IF ~s.ok THEN ParseOk(statements, s.current)
              ELSE parse_loop(toks, s.current, Append(statements, s.node)) :
                s \in {call("statement", toks, cur, <<>>)}})

\* the while loop of parse, with the statements pushed so far
parse_loop(toks, cur, statements) ==
    IF parser_peek(toks, cur).token_type = "Eof" THEN ParseOk(statements, cur)
    ELSE The({IF ~s.ok THEN s
              ELSE parse_loop(toks, s.current, Append(statements, s.node)) :
                s \in {call("statement", toks, cur, <<>>)}})

parse(toks, cur) == parse_loop(toks, cur, <<>>)

\* ------------------------------------------------------------------ values

NumberValue(n) == [t |-> "Number", n |-> n]

StringValue(s) == [t |-> "String", s |-> s]

BooleanValue(b) == [t |-> "Boolean", b |-> b]

\* the fractional digits of rem/den, at most `left` of them
RECURSIVE FractionDigits(_, _, _)
FractionDigits(rem, den, left) ==
    IF rem = 0 \/ left = 0 THEN <<>>
    ELSE <<Digits[((rem * 10) \div den) + 1]>>
         \o FractionDigits((rem * 10) % den, den, left - 1)

\* Display for f64: an integral value prints without a fraction; an expansion
\* that does not end is cut at 16 fractional digits
F64Text(n) ==
    IF RatIsInt(n) THEN IntegralText(n)
    ELSE (IF n[1] < 0 THEN <<"-">> ELSE <<>>)
         \o NatText(Abs(n[1]) \div n[2]) \o <<".">>
         \o FractionDigits(Abs(n[1]) % n[2], n[2], 16)

\* impl fmt::Display for Value
Display(value) ==
    CASE value.t = "Number" -> F64Text(value.n)
      [] value.t = "String" -> value.s
      [] value.t = "Boolean" ->
            IF value.b THEN <<"t", "r", "u", "e">> ELSE <<"f", "a", "l", "s", "e">>

\* ------------------------------------------------------------ interpreter

\* Result<Value, String> of evaluate_expr and the apply functions
EvalOk(value) == [ok |-> TRUE, val |-> value, err |-> <<>>]

EvalErr(message) == [ok |-> FALSE, val |-> <<>>, err |-> message]

\* `if n.fract() == 0.0 { format!("{}", n as i64) } else { format!("{}", n) }`
NumberText(n) == IF RatIsInt(n) THEN I64Text(n) ELSE F64Text(n)

\* a variant of the Divide arm in which 0 / 0 is a value
DivideNumbers_zero_by_zero(l, r) ==
    IF RatIsZero(r) /\ RatIsZero(l) THEN EvalOk(NumberValue(RatInt(0)))
    ELSE IF RatIsZero(r) THEN EvalErr(<<"Division by zero">>)
    ELSE EvalOk(NumberValue(RatDiv(l, r)))

DivideNumbers(l, r) ==
    IF RatIsZero(r) THEN EvalErr(<<"Division by zero">>)
    ELSE EvalOk(NumberValue(RatDiv(l, r)))

\* a variant of apply_binary_op that compares two Booleans with == and !=
apply_binary_op_booleans(left, op, right) ==
    IF left.t = "Boolean" /\ right.t = "Boolean" /\ op \in {"Equal", "NotEqual"}
    THEN EvalOk(BooleanValue((left.b = right.b) = (op = "Equal")))
    ELSE IF left.t = "Number" /\ right.t = "Number"
    THEN CASE op = "Add" -> EvalOk(NumberValue(RatAdd(left.n, right.n)))
           [] op = "Subtract" -> EvalOk(NumberValue(RatSub(left.n, right.n)))
           [] op = "Multiply" -> EvalOk(NumberValue(RatMul(left.n, right.n)))
           [] op = "Divide" -> DivideNumbers(left.n, right.n)
           [] op = "Equal" -> EvalOk(BooleanValue(left.n = right.n))
           [] op = "NotEqual" -> EvalOk(BooleanValue(left.n # right.n))
           [] op = "Less" -> EvalOk(BooleanValue(RatLess(left.n, right.n)))
           [] op = "Greater" -> EvalOk(BooleanValue(RatLess(right.n, left.n)))
           [] op = "LessEqual" -> EvalOk(BooleanValue(~RatLess(right.n, left.n)))
           [] op = "GreaterEqual" -> EvalOk(BooleanValue(~RatLess(left.n, right.n)))
    ELSE EvalErr(<<"Invalid operands for binary operation">>)

apply_binary_op(left, op, right) ==
    IF left.t = "Number" /\ right.t = "Number"
    THEN LET l == left.n
             r == right.n
         IN  CASE op = "Add" -> EvalOk(NumberValue(RatAdd(l, r)))
               [] op = "Subtract" -> EvalOk(NumberValue(RatSub(l, r)))
               [] op = "Multiply" -> EvalOk(NumberValue(RatMul(l, r)))
               [] op = "Divide" -> DivideNumbers(l, r)
               [] op = "Equal" -> EvalOk(BooleanValue(l = r))
               [] op = "NotEqual" -> EvalOk(BooleanValue(l # r))
               [] op = "Less" -> EvalOk(BooleanValue(RatLess(l, r)))
               [] op = "Greater" -> EvalOk(BooleanValue(RatLess(r, l)))
               [] op = "LessEqual" -> EvalOk(BooleanValue(~RatLess(r, l)))
               [] op = "GreaterEqual" -> EvalOk(BooleanValue(~RatLess(l, r)))
    ELSE IF left.t = "String" /\ right.t = "String"
    THEN CASE op = "Add" -> EvalOk(StringValue(left.s \o right.s))
           [] op = "Equal" -> EvalOk(BooleanValue(left.s = right.s))
           [] op = "NotEqual" -> EvalOk(BooleanValue(left.s # right.s))
           [] OTHER -> EvalErr(<<"Invalid operation for strings">>)
    ELSE IF left.t = "String" /\ right.t = "Number"
    THEN IF op = "Add"
         THEN EvalOk(StringValue(left.s \o NumberText(right.n)))
         ELSE EvalErr(<<"Invalid operation for string and number">>)
    ELSE IF left.t = "Number" /\ right.t = "String"
    THEN IF op = "Add"
         THEN EvalOk(StringValue(NumberText(left.n) \o right.s))
         ELSE EvalErr(<<"Invalid operation for number and string">>)
    ELSE EvalErr(<<"Invalid operands for binary operation">>)

apply_unary_op(op, operand) ==
    IF op = "Minus" /\ operand.t = "Number"
    THEN EvalOk(NumberValue(RatNeg(operand.n)))
    ELSE EvalErr(<<"Invalid operand for unary operation">>)

\* a variant of is_truthy in which every String is truthy
is_truthy_any_string(value) ==
    CASE value.t = "Boolean" -> value.b
      [] value.t = "Number" -> ~RatIsZero(value.n)
      [] value.t = "String" -> TRUE

is_truthy(value) ==
    CASE value.t = "Boolean" -> value.b
      [] value.t = "Number" -> ~RatIsZero(value.n)
      [] value.t = "String" -> value.s # <<>>

\* a variant of the lookup that reads an unbound name as 0
LookupIdentifier_zero(g, name) ==
    IF name \in DOMAIN g THEN EvalOk(g[name])
    ELSE EvalOk(NumberValue(RatInt(0)))

\* self.globals.get(&name) .ok_or_else(..)
LookupIdentifier(g, name) ==
    IF name \in DOMAIN g THEN EvalOk(g[name])
    ELSE EvalErr(<<"Undefined variable", name>>)

RECURSIVE evaluate_expr(_, _)
\* evaluate_expr with the right operand of a Binary evaluated before the left
evaluate_expr_right_first(g, expr) ==
    CASE expr.k = "Number" -> EvalOk(NumberValue(expr.n))
      [] expr.k = "String" -> EvalOk(StringValue(expr.s))
      [] expr.k = "Identifier" -> LookupIdentifier(g, expr.name)
      [] expr.k = "Binary" ->
            The({IF ~right_val.ok THEN right_val
                 ELSE The({IF ~left_val.ok THEN left_val
                           ELSE apply_binary_op(left_val.val, expr.operator,
                                                right_val.val) :
                             left_val \in {evaluate_expr(g, expr.left)}}) :
                   right_val \in {evaluate_expr(g, expr.right)}})
      [] expr.k = "Unary" ->
            The({IF ~operand_val.ok THEN operand_val
                 ELSE apply_unary_op(expr.operator, operand_val.val) :
                   operand_val \in {evaluate_expr(g, expr.operand)}})

evaluate_expr(g, expr) ==
    CASE expr.k = "Number" -> EvalOk(NumberValue(expr.n))
      [] expr.k = "String" -> EvalOk(StringValue(expr.s))
      [] expr.k = "Identifier" -> LookupIdentifier(g, expr.name)
      [] expr.k = "Binary" ->
            The({IF ~left_val.ok THEN left_val
                 ELSE The({IF ~right_val.ok THEN right_val
                           ELSE apply_binary_op(left_val.val, expr.operator,
                                                right_val.val) :
                             right_val \in {evaluate_expr(g, expr.right)}}) :
                   left_val \in {evaluate_expr(g, expr.left)}})
      [] expr.k = "Unary" ->
            The({IF ~operand_val.ok THEN operand_val
                 ELSE apply_unary_op(expr.operator, operand_val.val) :
                   operand_val \in {evaluate_expr(g, expr.operand)}})

\* self.globals.insert(name, val)
Insert(g, name, val) ==
    [n \in DOMAIN g \cup {name} |-> IF n = name THEN val ELSE g[n]]

\* the steps the longest run of the model takes, with room to spare
MaxSteps == 10 * MaxCount + 40

\* the configuration `fuel` steps after c, or the one without activations
\* that is reached before
RECURSIVE RunFrom(_, _)

\* The interpreter's configuration: the environment, the activations of
\* interpret and execute_stmt (innermost last), the lines printed, and
\* interpret's result (NoResult until it returns).  A "stmts" frame is a
\* `for stmt in statements` loop about to take statements[i]; a "stmt" frame
\* is a call of execute_stmt.
NoResult == <<>>

StmtsFrame(statements, i) == [k |-> "stmts", statements |-> statements, i |-> i]

StmtFrame(stmt) == [k |-> "stmt", stmt |-> stmt]

Top(fr) == fr[Len(fr)]

Pop(fr) == SubSeq(fr, 1, Len(fr) - 1)

\* execute_stmt returns Ok(()) to its caller; when the last activation returns,
\* interpret has returned Ok(())
Return(c) ==
    [c EXCEPT !.frames = Pop(c.frames),
              !.result = IF Len(c.frames) = 1 THEN <<"Ok">> ELSE NoResult]

\* a variant of `?` that drops the error: the statement returns Ok(())
Fail_dropped(c, err) == Return(c)

\* `?`: the error leaves every activation and is interpret's result
Fail(c, err) == [c EXCEPT !.frames = <<>>, !.result = <<"Err", err>>]

\* the for loops of interpret and of Stmt::Block: call execute_stmt on the next
\* statement, or leave the loop
for_loop(c) ==
    LET f == Top(c.frames) IN
    IF f.i <= Len(f.statements)
    THEN [c EXCEPT !.frames = Append(Append(Pop(c.frames),
                                            StmtsFrame(f.statements, f.i + 1)),
                                     StmtFrame(f.statements[f.i]))]
    ELSE Return(c)

\* a variant of the Expression arm that keeps the value under the name `_`
execute_expression_keep(c, stmt) ==
    The({IF ~val.ok THEN Fail(c, val.err)
         ELSE Return([c EXCEPT !.globals = Insert(c.globals, <<"_">>, val.val)]) :
           val \in {evaluate_expr(c.globals, stmt.expr)}})

execute_expression(c, stmt) ==
    The({IF ~val.ok THEN Fail(c, val.err) ELSE Return(c) :
           val \in {evaluate_expr(c.globals, stmt.expr)}})

\* a variant of the Let arm that rejects a name that is already bound
execute_let_once(c, stmt) ==
    The({IF ~val.ok THEN Fail(c, val.err)
         ELSE IF stmt.name \in DOMAIN c.globals
         THEN Fail(c, <<"Already defined", stmt.name>>)
         ELSE Return([c EXCEPT !.globals = Insert(c.globals, stmt.name, val.val)]) :
           val \in {evaluate_expr(c.globals, stmt.value)}})

\* a variant of the Let arm that declares the name, as 0, before it evaluates
\* the initializer
execute_let_declare_first(c, stmt) ==
    The({The({IF ~val.ok THEN Fail(d, val.err)
              ELSE Return([d EXCEPT !.globals =
                                      Insert(d.globals, stmt.name, val.val)]) :
                val \in {evaluate_expr(d.globals, stmt.value)}}) :
           d \in {[c EXCEPT !.globals =
                              Insert(c.globals, stmt.name, NumberValue(RatInt(0)))]}})

execute_let(c, stmt) ==
    The({IF ~val.ok THEN Fail(c, val.err)
         ELSE Return([c EXCEPT !.globals = Insert(c.globals, stmt.name, val.val)]) :
           val \in {evaluate_expr(c.globals, stmt.value)}})

\* a variant of the Assignment arm without the contains_key test
execute_assignment_insert(c, stmt) ==
    The({IF ~val.ok THEN Fail(c, val.err)
         ELSE Return([c EXCEPT !.globals = Insert(c.globals, stmt.name, val.val)]) :
           val \in {evaluate_expr(c.globals, stmt.value)}})

\* a variant of the Assignment arm that tests contains_key before it
\* evaluates the value
execute_assignment_name_first(c, stmt) ==
    IF stmt.name \notin DOMAIN c.globals
    THEN Fail(c, <<"Undefined variable", stmt.name>>)
    ELSE The({IF ~val.ok THEN Fail(c, val.err)
              ELSE Return([c EXCEPT !.globals =
                                      Insert(c.globals, stmt.name, val.val)]) :
                val \in {evaluate_expr(c.globals, stmt.value)}})

execute_assignment(c, stmt) ==
    The({IF ~val.ok THEN Fail(c, val.err)
         ELSE IF stmt.name \in DOMAIN c.globals
         THEN Return([c EXCEPT !.globals = Insert(c.globals, stmt.name, val.val)])
         ELSE Fail(c, <<"Undefined variable", stmt.name>>) :
           val \in {evaluate_expr(c.globals, stmt.value)}})

\* the branch runs as the If's last act: its activation takes the If's place
execute_if(c, stmt) ==
    The({IF ~condition_val.ok THEN Fail(c, condition_val.err)
         ELSE IF is_truthy(condition_val.val)
         THEN [c EXCEPT !.frames = Append(Pop(c.frames), StmtFrame(stmt.then_stmt))]
         ELSE IF stmt.else_stmt # <<>>
         THEN [c EXCEPT !.frames =
                           Append(Pop(c.frames), StmtFrame(stmt.else_stmt[1]))]
         ELSE Return(c) :
           condition_val \in {evaluate_expr(c.globals, stmt.condition)}})

\* a variant of the While arm that runs its body at most once
execute_while_once(c, stmt) ==
    The({IF ~condition_val.ok THEN Fail(c, condition_val.err)
         ELSE IF ~is_truthy(condition_val.val) THEN Return(c)
         ELSE [c EXCEPT !.frames = Append(Pop(c.frames), StmtFrame(stmt.body))] :
           condition_val \in {evaluate_expr(c.globals, stmt.condition)}})

\* one turn of the loop: the While's activation stays under its body's
execute_while(c, stmt) ==
    The({IF ~condition_val.ok THEN Fail(c, condition_val.err)
         ELSE IF ~is_truthy(condition_val.val) THEN Return(c)
         ELSE [c EXCEPT !.frames = Append(c.frames, StmtFrame(stmt.body))] :
           condition_val \in {evaluate_expr(c.globals, stmt.condition)}})

\* a variant of the Block arm with a scope of its own: the names the block
\* declares end with it, and what it assigns to outer names stays
execute_block_scoped(c, stmt) ==
    The({IF r.result = <<"Ok">>
         THEN Return([c EXCEPT !.stdout = r.stdout,
                               !.globals = [n \in DOMAIN c.globals |-> r.globals[n]]])
         ELSE IF r.result = NoResult THEN c
         ELSE Fail([c EXCEPT !.stdout = r.stdout], r.result[2]) :
           r \in {RunFrom([c EXCEPT !.frames = <<StmtsFrame(stmt.statements, 1)>>],
                          MaxSteps)}})

execute_block(c, stmt) ==
    [c EXCEPT !.frames = Append(Pop(c.frames), StmtsFrame(stmt.statements, 1))]

execute_print(c, stmt) ==
    The({IF ~val.ok THEN Fail(c, val.err)
         ELSE Return([c EXCEPT !.stdout = Append(c.stdout, Display(val.val))]) :
           val \in {evaluate_expr(c.globals, stmt.expr)}})

execute_stmt(c, stmt) ==
    CASE stmt.k = "Expression" -> execute_expression(c, stmt)
      [] stmt.k = "Let" -> execute_let(c, stmt)
      [] stmt.k = "Assignment" -> execute_assignment(c, stmt)
      [] stmt.k = "If" -> execute_if(c, stmt)
      [] stmt.k = "While" -> execute_while(c, stmt)
      [] stmt.k = "Block" -> execute_block(c, stmt)
      [] stmt.k = "Print" -> execute_print(c, stmt)

\* one step of the interpreter from a configuration with an activation
Step(c) ==
    IF Top(c.frames).k = "stmts" THEN for_loop(c)
    ELSE execute_stmt(c, Top(c.frames).stmt)

RunFrom(c, fuel) ==
    IF c.frames = <<>> \/ fuel = 0 THEN c
    ELSE The({RunFrom(d, fuel - 1) : d \in {Step(c)}})

\* Interpreter::new() and the call interpret(statements)
Interpreter(statements) ==
    [globals |-> <<>>, frames |-> <<StmtsFrame(statements, 1)>>,
     stdout |-> <<>>, result |-> NoResult]

\* ---------------------------------------------------------------- sources

\* The source texts the model runs.  Those written from a statement list are
\* its text with one space between tokens and every nested Binary operand in
\* parentheses.
Sp == <<" ">>

X == <<"x">>

Y == <<"y">>

ResultName == <<"r", "e", "s", "u", "l", "t">>

KwLet == <<"l", "e", "t">>

KwIf == <<"i", "f">>

KwElse == <<"e", "l", "s", "e">>

KwWhile == <<"w", "h", "i", "l", "e">>

KwPrint == <<"p", "r", "i", "n", "t">>

OpText(op) ==
    CASE op = "Add" -> <<"+">>
      [] op = "Subtract" -> <<"-">>
      [] op = "Multiply" -> <<"*">>
      [] op = "Divide" -> <<"/">>
      [] op = "Equal" -> <<"=", "=">>
      [] op = "NotEqual" -> <<"!", "=">>
      [] op = "Less" -> <<"<">>
      [] op = "Greater" -> <<">">>
      [] op = "LessEqual" -> <<"<", "=">>
      [] op = "GreaterEqual" -> <<">", "=">>

RECURSIVE ExprText(_)
ExprText(e) ==
    LET Operand(o) ==
            IF o.k = "Binary" THEN <<"(">> \o ExprText(o) \o <<")">>
            ELSE ExprText(o)
    IN  CASE e.k = "Number" -> NatText(e.n[1])
          [] e.k = "String" -> <<"\"">> \o e.s \o <<"\"">>
          [] e.k = "Identifier" -> e.name
          [] e.k = "Binary" ->
                Operand(e.left) \o Sp \o OpText(e.operator) \o Sp
                \o Operand(e.right)
          [] e.k = "Unary" -> <<"-">> \o Operand(e.operand)

RECURSIVE StmtText(_), StmtsText(_)
StmtText(s) ==
    CASE s.k = "Expression" -> ExprText(s.expr) \o <<";">>
      [] s.k = "Let" ->
            KwLet \o Sp \o s.name \o <<" ", "=", " ">> \o ExprText(s.value)
            \o <<";">>
      [] s.k = "Assignment" ->
            s.name \o <<" ", "=", " ">> \o ExprText(s.value) \o <<";">>
      [] s.k = "If" ->
            KwIf \o <<" ", "(">> \o ExprText(s.condition) \o <<")", " ">>
            \o StmtText(s.then_stmt)
            \o (IF s.else_stmt = <<>> THEN <<>>
                ELSE Sp \o KwElse \o Sp \o StmtText(s.else_stmt[1]))
      [] s.k = "While" ->
            KwWhile \o <<" ", "(">> \o ExprText(s.condition) \o <<")", " ">>
            \o StmtText(s.body)
      [] s.k = "Block" -> <<"{">> \o StmtsText(s.statements) \o <<" ", "}">>
      [] s.k = "Print" ->
            KwPrint \o <<"(">> \o ExprText(s.expr) \o <<")", ";">>

StmtsText(ss) ==
    IF ss = <<>> THEN <<>> ELSE Sp \o StmtText(Head(ss)) \o StmtsText(Tail(ss))

Lits == 0..MaxNum

Num(i) == NumberExpr(RatInt(i))

Str(s) == StringExpr(s)

Var(name) == IdentifierExpr(name)

Bin(l, op, r) == BinaryExpr(l, op, r)

\* the operators of each precedence level
EqualityOps == {"Equal", "NotEqual"}

ComparisonOps == {"Less", "Greater", "LessEqual", "GreaterEqual"}

TermOps == {"Add", "Subtract"}

FactorOps == {"Multiply", "Divide"}

Levels == {EqualityOps, ComparisonOps, TermOps, FactorOps}

BinaryOps == UNION Levels

\* `let result = a op1 b op2 c;` without parentheses
ArithText(a, op1, b, op2, c) ==
    KwLet \o Sp \o ResultName \o <<" ", "=", " ">> \o NatText(a) \o Sp
    \o OpText(op1) \o Sp \o NatText(b) \o Sp \o OpText(op2) \o Sp \o NatText(c)
    \o <<";">>

OpPairs ==
    UNION {l \X l : l \in Levels} \cup (TermOps \X FactorOps)
    \cup (FactorOps \X TermOps)

ArithSources ==
    {ArithText(a, p[1], b, p[2], c) : a \in Lits, b \in Lits, c \in Lits,
                                      p \in OpPairs}

BoolT == Bin(Num(0), "Less", Num(1))

BoolF == Bin(Num(1), "Less", Num(0))

LetResult(e) == StmtsText(<<LetStmt(ResultName, e)>>)

\* operands of every type, and an unbound name
Operands == <<BoolT, BoolF, Num(1), Str(<<"a">>), Var(Y)>>

TypeSources ==
    {LetResult(Bin(Operands[i], op, Operands[j])) :
        i \in 1..Len(Operands), j \in 1..Len(Operands), op \in BinaryOps}
    \cup {LetResult(UnaryExpr("Minus", Operands[i])) : i \in 1..Len(Operands)}

\* `let result = a < b < c;` without parentheses
ChainText(a, b, c) ==
    KwLet \o Sp \o ResultName \o <<" ", "=", " ">> \o NatText(a) \o <<" ", "<", " ">>
    \o NatText(b) \o <<" ", "<", " ">> \o NatText(c) \o <<";">>

\* `let result = a < b == c < d;` without parentheses
EqualChainText(a, b, c, d) ==
    KwLet \o Sp \o ResultName \o <<" ", "=", " ">> \o NatText(a) \o <<" ", "<", " ">>
    \o NatText(b) \o <<" ", "=", "=", " ">> \o NatText(c) \o <<" ", "<", " ">>
    \o NatText(d) \o <<";">>

ChainSources ==
    {ChainText(a, b, c) : a \in Lits, b \in Lits, c \in Lits}
    \cup {EqualChainText(a, b, c, d) : a \in Lits, b \in Lits, c \in Lits,
                                       d \in Lits}

\* dividends and divisors: zero and nonzero, literal and computed
DivOperands ==
    <<Num(0), Num(1), Num(2), UnaryExpr("Minus", Num(1)),
      Bin(Num(1), "Subtract", Num(1)), Bin(Num(1), "Divide", Num(2)),
      UnaryExpr("Minus", Num(0))>>

DivSources ==
    {LetResult(Bin(DivOperands[i], "Divide", DivOperands[j])) :
        i \in 1..Len(DivOperands), j \in 1..Len(DivOperands)}

\* statements that bind, assign, print and fail
SimplePool ==
    <<LetStmt(X, Num(1)), AssignmentStmt(X, Num(2)), AssignmentStmt(Y, Var(X)),
      AssignmentStmt(X, Bin(Num(1), "Divide", Num(0))), PrintStmt(Var(X)),
      LetStmt(X, Bin(Var(X), "Add", Num(1))), ExpressionStmt(Var(X)),
      ExpressionStmt(Bin(Num(1), "Divide", Num(0)))>>

Conds ==
    <<Num(0), Num(1), Str(<<>>), Str(<<"a">>), BoolT, BoolF, Var(X), Var(Y)>>

Thens ==
    <<PrintStmt(Str(<<"a">>)), AssignmentStmt(X, Num(2)),
      BlockStmt(<<PrintStmt(Str(<<"a">>)), AssignmentStmt(Y, Var(X))>>)>>

Elses ==
    <<<<>>, <<PrintStmt(Str(<<"b">>))>>,
      <<IfStmt(Var(X), PrintStmt(Str(<<"c">>)), <<LetStmt(Y, Num(1))>>)>>>>

\* loop conditions that are false, fail, or turn false in the body
LoopConds == <<Var(X), Num(0), Var(Y), Bin(Var(X), "Greater", Num(0))>>

Bodies ==
    <<AssignmentStmt(X, Num(0)),
      BlockStmt(<<PrintStmt(Var(X)), AssignmentStmt(X, Num(0))>>),
      BlockStmt(<<AssignmentStmt(X, Bin(Num(1), "Divide", Num(0))),
                  PrintStmt(Var(X))>>),
      AssignmentStmt(Y, Num(1))>>

Pres ==
    <<<<>>, <<LetStmt(X, Num(1))>>,
      <<PrintStmt(Str(<<"p">>)), LetStmt(X, Num(1)), LetStmt(Y, Num(0))>>>>

Posts == <<<<PrintStmt(Var(X))>>, <<AssignmentStmt(X, Num(2)), PrintStmt(Var(Y))>>>>

Span(seq) == 1..Len(seq)

Items ==
    {<<SimplePool[i]>> : i \in Span(SimplePool)}
    \cup {<<BlockStmt(<<>>)>>}
    \cup {<<BlockStmt(<<SimplePool[i]>>)>> : i \in Span(SimplePool)}
    \cup {<<BlockStmt(<<SimplePool[i], SimplePool[j]>>)>> :
            i \in Span(SimplePool), j \in Span(SimplePool)}
    \cup {<<BlockStmt(<<BlockStmt(<<SimplePool[i]>>), SimplePool[j]>>)>> :
            i \in {1, 4}, j \in {2, 5}}
    \cup {<<IfStmt(Conds[c], Thens[t], Elses[e])>> :
            c \in Span(Conds), t \in Span(Thens), e \in Span(Elses)}
    \cup {<<WhileStmt(LoopConds[c], Bodies[b])>> :
            c \in Span(LoopConds), b \in Span(Bodies)}

StatementSources ==
    {StmtsText(Pres[p] \o item \o Posts[q]) :
        p \in Span(Pres), item \in Items, q \in Span(Posts)}

\* `let x = x0; while (x < n) { print(x); x = x + 1; }`
CountingLoop(x0, n) ==
    <<LetStmt(X, Num(x0)),
      WhileStmt(Bin(Var(X), "Less", Num(n)),
                BlockStmt(<<PrintStmt(Var(X)),
                            AssignmentStmt(X, Bin(Var(X), "Add", Num(1)))>>))>>

CountSources ==
    {StmtsText(CountingLoop(x0, n)) : x0 \in 0..MaxCount, n \in 0..MaxCount}

\* `let result = 3 + 4 * 2;`
PrecedenceExample ==
    <<"l", "e", "t", " ", "r", "e", "s", "u", "l", "t", " ", "=", " ", 
      "3", " ", "+", " ", "4", " ", "*", " ", "2", ";">>

\* `let result = 10 - 3 - 2;`
AssociativityExample ==
    <<"l", "e", "t", " ", "r", "e", "s", "u", "l", "t", " ", "=", " ", 
      "1", "0", " ", "-", " ", "3", " ", "-", " ", "2", ";">>

\* `let result = 1 / 0.0;`
DivideByZeroPointZero ==
    <<"l", "e", "t", " ", "r", "e", "s", "u", "l", "t", " ", "=", " ", 
      "1", " ", "/", " ", "0", ".", "0", ";">>

\* `let x = 1 ! 2;`
LoneBang ==
    <<"l", "e", "t", " ", "x", " ", "=", " ", "1", " ", "!", " ", "2", ";">>

\* `print(1); let = 1;`
MissingName ==
    <<"p", "r", "i", "n", "t", "(", "1", ")", ";", " ", "l", "e", "t", 
      " ", "=", " ", "1", ";">>

\* `let x = 0; if (x) { print("a"); } else { print("b"); }`
IfExample ==
    StmtsText(<<LetStmt(X, Num(0)),
                IfStmt(Var(X), BlockStmt(<<PrintStmt(Str(<<"a">>))>>),
                       <<BlockStmt(<<PrintStmt(Str(<<"b">>))>>)>>)>>)

\* `let x = 1; let x = 2;`
LetTwice == StmtsText(<<LetStmt(X, Num(1)), LetStmt(X, Num(2))>>)

\* `let x = 1; { x = 2; let y = 3; } print(x); print(y);`
ScopeExample ==
    StmtsText(<<LetStmt(X, Num(1)),
                BlockStmt(<<AssignmentStmt(X, Num(2)), LetStmt(Y, Num(3))>>),
                PrintStmt(Var(X)), PrintStmt(Var(Y))>>)

\* number literals with zero fractional part and the integer each one
\* writes: 0, 2, 2.0 and 10^19, which is above i64::MAX
Ten19 == <<"1">> \o Zeros(19)

IntegralLiterals ==
    <<<<<<"0">>, <<"0">>>>, <<<<"2">>, <<"2">>>>, <<<<"2", ".", "0">>, <<"2">>>>,
      <<Ten19, Ten19>>>>

\* `let result = l + r;` for two literals as they are written
ConcatText(l, r) ==
    KwLet \o Sp \o ResultName \o <<" ", "=", " ">> \o l \o <<" ", "+", " ">> \o r
    \o <<";">>

Quoted(s) == <<"\"">> \o s \o <<"\"">>

ConcatStrings == {<<>>, <<"a">>, <<"n", "=">>}

\* a String and a Number literal under `+`, either way round, and
\* `let result = "Pi: " + 3.5;`
ConcatSources ==
    {ConcatText(Quoted(s), IntegralLiterals[i][1]) :
        s \in ConcatStrings, i \in Span(IntegralLiterals)}
    \cup {ConcatText(IntegralLiterals[i][1], Quoted(s)) :
            s \in ConcatStrings, i \in Span(IntegralLiterals)}
    \cup {ConcatText(Quoted(<<"P", "i", ":", " ">>), <<"3", ".", "5">>)}

\* texts for the scanner: a quote, a comment opener, a slash, a newline, a
\* backslash and a letter, in every order
LexPieces == {<<"\"">>, <<"/", "/">>, <<"/">>, <<"\n">>, <<"\\">>, <<"x">>}

RECURSIVE Flatten(_)
Flatten(pieces) ==
    IF pieces = <<>> THEN <<>> ELSE Head(pieces) \o Flatten(Tail(pieces))

LexSources ==
    {Flatten(p) : p \in UNION {[1..n -> LexPieces] : n \in 0..MaxPieces}}

\* `let x = 1; // one`, `let y = 2;`, `print("//"); // two` on three lines
CommentsExample ==
    <<"l", "e", "t", " ", "x", " ", "=", " ", "1", ";", " ", "/", "/", " ",
      "o", "n", "e", "\n", "l", "e", "t", " ", "y", " ", "=", " ", "2", ";",
      "\n", "p", "r", "i", "n", "t", "(", "\"", "/", "/", "\"", ")", ";",
      " ", "/", "/", " ", "t", "w", "o">>

\* a comment, `print("a` / `b"); // c`, `print(1);` and an empty fifth line
LinesExample ==
    <<"/", "/", " ", "c", "\n", "p", "r", "i", "n", "t", "(", "\"", "a",
      "\n", "b", "\"", ")", ";", " ", "/", "/", " ", "c", "\n", "p", "r",
      "i", "n", "t", "(", "1", ")", ";", "\n">>

\* texts the parser rejects, each with the message, the 0-based index of the
\* token the parser is on when it gives up, and that token's line
ParseErrors == <<
    <<
      <<"p", "r", "i", "n", "t", "(", "1", ")", ";", "\n", "l", "e", "t",
        " ", "=", " ", "1", ";">>,
      "Expected identifier after 'let'", 6, 2>>,
    <<
      <<"l", "e", "t", " ", "x", "\n", "1", ";">>,
      "Expected '=' after variable name", 2, 2>>,
    <<
      <<"l", "e", "t", " ", "x", " ", "=", " ", "1", "\n", "l", "e", "t",
        " ", "y", " ", "=", " ", "2", ";">>,
      "Expected ';' after let statement", 4, 2>>,
    <<
      <<"i", "f", " ", "x", ")", " ", "{", "}">>,
      "Expected '(' after 'if'", 1, 1>>,
    <<
      <<"i", "f", " ", "(", "x", "\n", "{", " ", "}">>,
      "Expected ')' after if condition", 3, 2>>,
    <<
      <<"i", "f", " ", "(", "1", ")", " ", "p", "r", "i", "n", "t", "(", "1",
        ")", ";", " ", "e", "l", "s", "e", "\n">>,
      "Unexpected token", 10, 2>>,
    <<
      <<"w", "h", "i", "l", "e", " ", "1">>,
      "Expected '(' after 'while'", 1, 1>>,
    <<
      <<"w", "h", "i", "l", "e", " ", "(", "1", " ", "{">>,
      "Expected ')' after while condition", 3, 1>>,
    <<
      <<"w", "h", "i", "l", "e", " ", "(", "1", ")", " ", "{", "\n", "p",
        "r", "i", "n", "t", "(", "1", ")", ";", "\n">>,
      "Expected '}' after block", 10, 3>>,
    <<
      <<"p", "r", "i", "n", "t", " ", "1", ";", "\n", "l", "e", "t", " ",
        "=", " ", "1", ";">>,
      "Expected '(' after 'print'", 1, 1>>,
    <<
      <<"p", "r", "i", "n", "t", "(", "1", ";">>,
      "Expected ')' after print expression", 3, 1>>,
    <<
      <<"p", "r", "i", "n", "t", "(", "1", ")", "\n", "\n", "}">>,
      "Expected ';' after print statement", 4, 3>>,
    <<
      <<"x", " ", "=", " ", "1", " ", "+", "\n", ";">>,
      "Unexpected token", 4, 2>>,
    <<
      <<"x", " ", "=", " ", "1">>,
      "Expected ';' after assignment", 3, 1>>,
    <<
      <<"(", "1", " ", "+", " ", "2", ";">>,
      "Expected ')' after expression", 4, 1>>,
    <<
      <<"l", "e", "t", " ", "x", " ", "=", " ", "1", ";", "\n", "}">>,
      "Unexpected token", 5, 2>>,
    <<
      <<"1", " ", "2", ";">>,
      "Expected ';' after expression", 1, 1>>>>

ErrorSources == {ParseErrors[i][1] : i \in Span(ParseErrors)}

\* `print(1); !`
BangAfterPrint ==
    <<"p", "r", "i", "n", "t", "(", "1", ")", ";", " ", "!">>

\* statements that start with an identifier: x, then up to MaxPieces of `=`,
\* `==`, `1`, `+`, `;`, a space before each
IdentPieces ==
    {<<" ", "=">>, <<" ", "=", "=">>, <<" ", "1">>, <<" ", "+">>, <<" ", ";">>}

IdentSources ==
    {X \o Flatten(p) : p \in UNION {[1..n -> IdentPieces] : n \in 0..MaxPieces}}

\* operator characters, in every order: up to MaxPieces of `=`, `!`, `<`,
\* `>`, space and `;`
OperatorPieces == {<<"=">>, <<"!">>, <<"<">>, <<">">>, <<" ">>, <<";">>}

OperatorSources ==
    {Flatten(p) : p \in UNION {[1..n -> OperatorPieces] : n \in 0..MaxPieces}}

\* operands whose evaluation fails, each in its own way, and two that
\* evaluate: x and y unbound, 1 / 0, -"a", 1 < 2 and 1
OrderOperands ==
    <<Var(X), Var(Y), Bin(Num(1), "Divide", Num(0)),
      UnaryExpr("Minus", Str(<<"a">>)), Bin(Num(1), "Less", Num(2)), Num(1)>>

\* `let result = l op r;` for every pair of them and every operator
OrderSources ==
    {LetResult(Bin(OrderOperands[i], op, OrderOperands[j])) :
        i \in Span(OrderOperands), j \in Span(OrderOperands), op \in BinaryOps}

\* conditions as they are written, as they parse, and whether they are truthy
DanglingConds ==
    <<<<<<"0">>, Num(0), FALSE>>, <<<<"1">>, Num(1), TRUE>>,
      <<<<"\"", "\"">>, Str(<<>>), FALSE>>,
      <<<<"\"", "a", "\"">>, Str(<<"a">>), TRUE>>>>

\* `if (a) if (b) print(1); else print(2);`
DanglingText(a, b) ==
    <<"i", "f", " ", "(">> \o a \o <<")", " ", "i", "f", " ", "(">> \o b
    \o <<")", " ", "p", "r", "i", "n", "t", "(", "1", ")", ";", " ", "e", "l", "s",
  "e", " ", "p", "r", "i", "n", "t", "(", "2", ")", ";">>

\* the same with ` else print(3);` after it
DanglingTwiceText(a, b) ==
    DanglingText(a, b) \o <<" ", "e", "l", "s", "e", " ", "p", "r", "i", "n", "t", "(", "3", ")", ";">>

DanglingSources ==
    {DanglingText(DanglingConds[i][1], DanglingConds[j][1]) :
        i \in Span(DanglingConds), j \in Span(DanglingConds)}
    \cup {DanglingTwiceText(DanglingConds[i][1], DanglingConds[j][1]) :
            i \in Span(DanglingConds), j \in Span(DanglingConds)}

\* values for an assignment to the unbound x: `1 / 0`, `y`, `-"a"`, `1 + y`,
\* `x` and `1`
AssignValues ==
    <<<<"1", " ", "/", " ", "0">>, <<"y">>, <<"-", "\"", "a", "\"">>,
      <<"1", " ", "+", " ", "y">>, <<"x">>, <<"1">>>>

\* `x = value;`
AssignText(value) == X \o <<" ", "=", " ">> \o value \o <<";">>

AssignSources == {AssignText(AssignValues[i]) : i \in Span(AssignValues)}

\* a Let whose initializer fails: `let x = x + 1;`, and after `let x = 1;`
\* each of `let x = x / 0;`, `let x = y;`, `let y = -"a";`
LetFails ==
    <<<<"l", "e", "t", " ", "x", " ", "=", " ", "x", " ", "+", " ", "1", ";">>,
      <<"l", "e", "t", " ", "x", " ", "=", " ", "1", ";", " ", "l", "e", "t", " ",
  "x", " ", "=", " ", "x", " ", "/", " ", "0", ";">>,
      <<"l", "e", "t", " ", "x", " ", "=", " ", "1", ";", " ", "l", "e", "t", " ",
  "x", " ", "=", " ", "y", ";">>,
      <<"l", "e", "t", " ", "x", " ", "=", " ", "1", ";", " ", "l", "e", "t", " ",
  "y", " ", "=", " ", "-", "\"", "a", "\"", ";">>>>

LetFailSources == {LetFails[i] : i \in Span(LetFails)}

\* `print(1); print("a);`
UnterminatedAfterPrint ==
    <<"p", "r", "i", "n", "t", "(", "1", ")", ";", " ", "p", "r", "i", "n",
      "t", "(", "\"", "a", ")", ";">>

RawSources ==
    {PrecedenceExample, AssociativityExample, DivideByZeroPointZero, LoneBang,
     MissingName, IfExample, LetTwice, ScopeExample, CommentsExample,
     LinesExample, BangAfterPrint,
     UnterminatedAfterPrint}

Sources ==
    ArithSources \cup TypeSources \cup ChainSources \cup DivSources
    \cup StatementSources \cup CountSources \cup RawSources \cup ConcatSources
    \cup LexSources \cup ErrorSources \cup IdentSources \cup OperatorSources
    \cup OrderSources \cup DanglingSources
    \cup AssignSources \cup LetFailSources

\* ---------------------------------------------------------- state machine

\* the latest interpreter step: what it ran and the configuration before it
NoStep == [k |-> "none"]

Config == [globals |-> globals, frames |-> frames, stdout |-> stdout,
           result |-> result]

Init ==
    /\ input \in Sources
    /\ position = 0
    /\ line = 1
    /\ tokens = <<>>
    /\ current = 0
    /\ ast = <<>>
    /\ globals = <<>>
    /\ frames = <<>>
    /\ result = NoResult
    /\ stdout = <<>>
    /\ stderr = <<>>
    /\ pc = "tokenize"
    /\ last = NoStep

\* tokenize with the test for Eof made before the push
NextToken_break_before_push ==
    /\ pc = "tokenize"
    /\ \E t \in {next_token(input, position, line)} :
       /\ position' = t.position
       /\ line' = t.line
       /\ \/ /\ ~t.panic
             /\ tokens' = IF t.token.token_type = "Eof" THEN tokens
                          ELSE Append(tokens, t.token)
             /\ pc' = IF t.token.token_type = "Eof" THEN "parse" ELSE "tokenize"
             /\ UNCHANGED <<result, stderr>>
          \/ /\ t.panic
             /\ result' = <<"Panic", t.message>>
             /\ stderr' = Append(stderr, <<"panicked", t.message>>)
             /\ pc' = "done"
             /\ UNCHANGED tokens
    /\ UNCHANGED <<input, current, ast, globals, frames, stdout, last>>

\* one turn of the loop of tokenize: next_token, push, stop after Eof; a
\* panic ends the process
NextToken ==
    /\ pc = "tokenize"
    /\ \E t \in {next_token(input, position, line)} :
       /\ position' = t.position
       /\ line' = t.line
       /\ \/ /\ ~t.panic
             /\ tokens' = Append(tokens, t.token)
             /\ pc' = IF t.token.token_type = "Eof" THEN "parse" ELSE "tokenize"
             /\ UNCHANGED <<result, stderr>>
          \/ /\ t.panic
             /\ result' = <<"Panic", t.message>>
             /\ stderr' = Append(stderr, <<"panicked", t.message>>)
             /\ pc' = "done"
             /\ UNCHANGED tokens
    /\ UNCHANGED <<input, current, ast, globals, frames, stdout, last>>

\* Parser::new(tokens).parse(), and on Ok Interpreter::new() and the call of
\* interpret
Parse ==
    /\ pc = "parse"
    /\ \E r \in {parse(tokens, 0)} :
       /\ current' = r.current
       /\ \/ /\ r.ok
             /\ ast' = r.node
             /\ frames' = Interpreter(r.node).frames
             /\ pc' = "interpret"
             /\ UNCHANGED result
          \/ /\ ~r.ok
             /\ result' = <<"ParseError", r.err>>
             /\ pc' = "report"
             /\ UNCHANGED <<ast, frames>>
    /\ UNCHANGED <<input, position, line, tokens, globals, stdout, stderr, last>>

\* the interpreter moves from Config to the configuration after the step
Becomes(after, kind, stmt) ==
    \E c \in {after} :
    /\ globals' = c.globals
    /\ frames' = c.frames
    /\ stdout' = c.stdout
    /\ result' = c.result
    /\ pc' = IF c.result = NoResult THEN "interpret" ELSE "report"
    /\ last' = [k |-> kind, stmt |-> stmt, globals |-> globals,
                frames |-> frames, stdout |-> stdout]
    /\ UNCHANGED <<input, position, line, tokens, current, ast, stderr>>

AtLoop == pc = "interpret" /\ Top(frames).k = "stmts"

AtStmt(kind) ==
    pc = "interpret" /\ Top(frames).k = "stmt" /\ Top(frames).stmt.k = kind

ForLoop == AtLoop /\ Becomes(for_loop(Config), "for", <<>>)

ExecExpression ==
    /\ AtStmt("Expression")
    /\ Becomes(execute_stmt(Config, Top(frames).stmt), "Expression",
               Top(frames).stmt)

ExecLet ==
    /\ AtStmt("Let")
    /\ Becomes(execute_stmt(Config, Top(frames).stmt), "Let", Top(frames).stmt)

ExecAssignment ==
    /\ AtStmt("Assignment")
    /\ Becomes(execute_stmt(Config, Top(frames).stmt), "Assignment",
               Top(frames).stmt)

ExecIf ==
    /\ AtStmt("If")
    /\ Becomes(execute_stmt(Config, Top(frames).stmt), "If", Top(frames).stmt)

ExecWhile ==
    /\ AtStmt("While")
    /\ Becomes(execute_stmt(Config, Top(frames).stmt), "While", Top(frames).stmt)

ExecBlock ==
    /\ AtStmt("Block")
    /\ Becomes(execute_stmt(Config, Top(frames).stmt), "Block", Top(frames).stmt)

ExecPrint ==
    /\ AtStmt("Print")
    /\ Becomes(execute_stmt(Config, Top(frames).stmt), "Print", Top(frames).stmt)

\* the lines of the success message of run_program
Banner == <<<<>>, <<"Ferris program executed successfully!">>>>

\* the match arms of run_program on the results of parse and interpret
\* run_program with the banner printed after the match, whatever its arm
Report_banner_always ==
    /\ pc = "report"
    /\ stdout' = stdout \o Banner
    /\ \/ /\ result = <<"Ok">>
          /\ UNCHANGED stderr
       \/ /\ result[1] = "Err"
          /\ stderr' = Append(stderr, <<"Runtime error", result[2]>>)
       \/ /\ result[1] = "ParseError"
          /\ stderr' = Append(stderr, <<"Parse error", result[2]>>)
    /\ pc' = "done"
    /\ UNCHANGED <<input, position, line, tokens, current, ast, globals, frames,
                   result, last>>

Report ==
    /\ pc = "report"
    /\ \/ /\ result = <<"Ok">>
          /\ stdout' = stdout \o Banner
          /\ UNCHANGED stderr
       \/ /\ result[1] = "Err"
          /\ stderr' = Append(stderr, <<"Runtime error", result[2]>>)
          /\ UNCHANGED stdout
       \/ /\ result[1] = "ParseError"
          /\ stderr' = Append(stderr, <<"Parse error", result[2]>>)
          /\ UNCHANGED stdout
    /\ pc' = "done"
    /\ UNCHANGED <<input, position, line, tokens, current, ast, globals, frames,
                   result, last>>

Next ==
    \/ NextToken
    \/ Parse
    \/ ForLoop
    \/ ExecExpression
    \/ ExecLet
    \/ ExecAssignment
    \/ ExecIf
    \/ ExecWhile
    \/ ExecBlock
    \/ ExecPrint
    \/ Report

Spec == Init /\ [][Next]_vars

\* run_program runs on one thread to completion: a step that can be taken is
\* taken
FairSpec == Spec /\ WF_vars(Next)

\* ------------------------------------------------------------- properties

\* interpret's results, and the divide-by-zero and type errors
Ok == <<"Ok">>

Err(e) == <<"Err", e>>

DivisionByZero == <<"Division by zero">>

InvalidOperands == <<"Invalid operands for binary operation">>

InvalidOperand == <<"Invalid operand for unary operation">>

UndefinedVariable(name) == <<"Undefined variable", name>>

\* the arithmetic of two numbers, written with the fractions themselves
Arith(l, op, r) ==
    CASE op = "Add" -> RatAdd(l, r)
      [] op = "Subtract" -> RatSub(l, r)
      [] op = "Multiply" -> RatMul(l, r)
      [] op = "Divide" -> RatDiv(l, r)

\* the latest step failed with e: interpret returns e, nothing is left to run,
\* and the environment and the prints are those from before the step
FailedWith(e) ==
    /\ result = Err(e)
    /\ frames = <<>>
    /\ pc \in {"report", "done"}
    /\ globals = last.globals
    /\ stdout = last.stdout

\* the latest step returned Ok(()) to its caller without printing
Returned ==
    /\ result = NoResult
    /\ frames = Pop(last.frames)
    /\ stdout = last.stdout

\* C1: multiplicative operators bind tighter than additive ones: the source
\* `let result = a op1 b op2 c;` with op1 one of + - and op2 one of * /
\* parses to a op1 (b op2 c) and leaves result bound to that value (a failure
\* with division by zero where c is 0 under /); `let result = 3 + 4 * 2;`
\* leaves result = 11
MultiplicativeBindsTighter ==
    /\ pc = "done" /\ input \in ArithSources =>
          \A a \in Lits, b \in Lits, c \in Lits, op1 \in TermOps, op2 \in FactorOps :
              input = ArithText(a, op1, b, op2, c) =>
                  /\ ast = <<LetStmt(ResultName,
                                     Bin(Num(a), op1, Bin(Num(b), op2, Num(c))))>>
                  /\ IF op2 = "Divide" /\ c = 0
                     THEN result = Err(DivisionByZero) /\ globals = <<>>
                     ELSE /\ result = Ok
                          /\ DOMAIN globals = {ResultName}
                          /\ globals[ResultName] =
                                 NumberValue(Arith(RatInt(a), op1,
                                                   Arith(RatInt(b), op2, RatInt(c))))
    /\ pc = "done" /\ input = PrecedenceExample =>
          /\ result = Ok
          /\ DOMAIN globals = {ResultName}
          /\ globals[ResultName] = NumberValue(RatInt(11))

\* a run of `let result = 1 + 1 * 2;` that ended with result = 3, where
\* (1 + 1) * 2 is 4
MultiplicativeBindsTighterWitness ==
    /\ pc = "done"
    /\ input = ArithText(1, "Add", 1, "Multiply", 2)
    /\ result = Ok
    /\ globals[ResultName] = NumberValue(RatInt(3))

\* C2: every binary operator is left-associative: for two operators of one
\* precedence level `a op1 b op2 c` parses to Binary(Binary(a, op1, b), op2, c),
\* the arithmetic levels leave result = (a op1 b) op2 c, and
\* `let result = 10 - 3 - 2;` leaves result = 5
LeftAssociative ==
    /\ pc = "done" /\ input \in ArithSources =>
          \A a \in Lits, b \in Lits, c \in Lits, l \in Levels :
              \A op1 \in l, op2 \in l :
                  input = ArithText(a, op1, b, op2, c) =>
                      /\ ast = <<LetStmt(ResultName,
                                         Bin(Bin(Num(a), op1, Num(b)), op2, Num(c)))>>
                      /\ l \in {TermOps, FactorOps} =>
                            IF (op1 = "Divide" /\ b = 0) \/ (op2 = "Divide" /\ c = 0)
                            THEN result = Err(DivisionByZero)
                            ELSE /\ result = Ok
                                 /\ DOMAIN globals = {ResultName}
                                 /\ globals[ResultName] =
                                        NumberValue(Arith(Arith(RatInt(a), op1, RatInt(b)),
                                                          op2, RatInt(c)))
    /\ pc = "done" /\ input = AssociativityExample =>
          /\ ast = <<LetStmt(ResultName,
                             Bin(Bin(Num(10), "Subtract", Num(3)), "Subtract", Num(2)))>>
          /\ result = Ok
          /\ DOMAIN globals = {ResultName}
          /\ globals[ResultName] = NumberValue(RatInt(5))

\* a run of `let result = 10 - 3 - 2;` that ended with result = 5
LeftAssociativeWitness ==
    /\ pc = "done"
    /\ input = AssociativityExample
    /\ result = Ok
    /\ globals[ResultName] = NumberValue(RatInt(5))

\* C3, as the code has it: an Assignment evaluates its value first.  When the
\* value fails, the Assignment fails with the value's error, whether or not
\* the name is bound.  When the value evaluates and the name is not bound, it
\* fails with the undefined-variable error for the name.  Either failure
\* leaves the environment as it was.  When the value evaluates and the name is
\* bound, it succeeds and changes only that binding, to the value.
AssignmentRequiresBinding ==
    last.k = "Assignment" =>
        \E val \in {evaluate_expr(last.globals, last.stmt.value)} :
            IF ~val.ok THEN FailedWith(val.err)
            ELSE IF last.stmt.name \notin DOMAIN last.globals
            THEN FailedWith(UndefinedVariable(last.stmt.name))
            ELSE /\ Returned
                 /\ DOMAIN globals = DOMAIN last.globals
                 /\ globals[last.stmt.name] = val.val
                 /\ \A n \in DOMAIN globals \ {last.stmt.name} :
                        globals[n] = last.globals[n]

\* `x = 2;` with x unbound has failed with the undefined-variable error for x
AssignmentRequiresBindingWitness ==
    /\ last.k = "Assignment"
    /\ last.stmt.name \notin DOMAIN last.globals
    /\ evaluate_expr(last.globals, last.stmt.value).ok
    /\ result = Err(UndefinedVariable(last.stmt.name))
    /\ globals = last.globals

\* C3 as stated: an Assignment to an unbound name fails with the
\* undefined-variable error for that name and leaves the environment as it
\* was; an Assignment to a bound name succeeds and changes only that binding
AssignmentAsStated ==
    last.k = "Assignment" =>
        IF last.stmt.name \notin DOMAIN last.globals
        THEN FailedWith(UndefinedVariable(last.stmt.name))
        ELSE /\ Returned
             /\ DOMAIN globals = DOMAIN last.globals
             /\ \A n \in DOMAIN globals \ {last.stmt.name} :
                    globals[n] = last.globals[n]

\* the error of executing statement s in environment g as its first act, or
\* <<>> when that act succeeds
ErrorOf(g, s) ==
    LET Of(e) == \E val \in {evaluate_expr(g, e)} : ~val.ok
        ErrOf(e) == evaluate_expr(g, e).err
    IN  CASE s.k \in {"Expression", "Print"} ->
                IF Of(s.expr) THEN ErrOf(s.expr) ELSE <<>>
          [] s.k = "Let" -> IF Of(s.value) THEN ErrOf(s.value) ELSE <<>>
          [] s.k = "Assignment" ->
                IF Of(s.value) THEN ErrOf(s.value)
                ELSE IF s.name \notin DOMAIN g THEN UndefinedVariable(s.name)
                ELSE <<>>
          [] s.k \in {"If", "While"} ->
                IF Of(s.condition) THEN ErrOf(s.condition) ELSE <<>>
          [] s.k = "Block" -> <<>>

\* the latest step ran a statement that failed
StatementFailed ==
    /\ last.k \notin {"none", "for"}
    /\ ErrorOf(last.globals, last.stmt) # <<>>

\* C4: first error wins: when a statement fails, at top level or nested,
\* interpret returns that statement's error, nothing is left to execute, the
\* environment and the prints are those the earlier statements left, and no
\* step after it changes the environment, the prints or the result
FirstErrorWins ==
    /\ [](StatementFailed => FailedWith(ErrorOf(last.globals, last.stmt)))
    /\ [][(result # NoResult /\ result[1] = "Err") =>
              UNCHANGED <<globals, stdout, frames, result, last>>]_vars

\* an Assignment nested in a Block in a While body has failed after a print,
\* with statements still to run behind it
FirstErrorWinsWitness ==
    /\ pc = "done"
    /\ last.k = "Assignment"
    /\ Len(last.frames) >= 4
    /\ \E i \in 1..Len(last.frames) :
          /\ last.frames[i].k = "stmts"
          /\ last.frames[i].i <= Len(last.frames[i].statements)
    /\ result = Err(DivisionByZero)
    /\ last.stdout # <<>>
    /\ stdout = last.stdout

\* statement s with the statements of every Block that stands in a statement
\* list put in the Block's place
RECURSIVE Inline(_), InlineAll(_)
Inline(s) ==
    CASE s.k = "Block" -> BlockStmt(InlineAll(s.statements))
      [] s.k = "If" ->
            IfStmt(s.condition, Inline(s.then_stmt),
                   IF s.else_stmt = <<>> THEN <<>> ELSE <<Inline(s.else_stmt[1])>>)
      [] s.k = "While" -> WhileStmt(s.condition, Inline(s.body))
      [] OTHER -> s

InlineAll(ss) ==
    IF ss = <<>> THEN <<>>
    ELSE (IF Head(ss).k = "Block" THEN InlineAll(Head(ss).statements)
          ELSE <<Inline(Head(ss))>>) \o InlineAll(Tail(ss))

\* a statement list with a Block among its statements
HasBlock(ss) == \E i \in 1..Len(ss) : ss[i].k = "Block"

\* C5: blocks introduce no scope: a program ends with the environment, the
\* prints and the result of the program in which the statements of every
\* Block of a statement list stand in the Block's place; in
\* `let x = 1; { x = 2; let y = 3; } print(x); print(y);` the prints are 2, 3
BlocksIntroduceNoScope ==
    /\ pc = "report" /\ result[1] \in {"Ok", "Err"} =>
          \E r \in {RunFrom(Interpreter(InlineAll(ast)), MaxSteps)} :
              /\ r.frames = <<>>
              /\ r.result = result
              /\ r.globals = globals
              /\ r.stdout = stdout
    /\ pc = "report" /\ input = ScopeExample =>
          /\ result = Ok
          /\ stdout = <<<<"2">>, <<"3">>>>

\* the run of a program with a Block that assigns x and declares y ended in
\* the environment of the program without the braces
BlocksIntroduceNoScopeWitness ==
    /\ pc = "report"
    /\ input = ScopeExample
    /\ HasBlock(ast)
    /\ ~HasBlock(InlineAll(ast))
    /\ result = Ok
    /\ globals[X] = NumberValue(RatInt(2))
    /\ globals[Y] = NumberValue(RatInt(3))

\* C6: a Let whose initializer evaluates succeeds whether or not the name is
\* bound: the name is then bound to the value the initializer had before the
\* Let and every other binding is as before; `let x = 1; let x = 2;` ends Ok
\* with x = 2
LetAlwaysBinds ==
    /\ last.k = "Let" =>
          \E val \in {evaluate_expr(last.globals, last.stmt.value)} :
              val.ok =>
                  /\ Returned
                  /\ DOMAIN globals = DOMAIN last.globals \cup {last.stmt.name}
                  /\ globals[last.stmt.name] = val.val
                  /\ \A n \in DOMAIN last.globals \ {last.stmt.name} :
                         globals[n] = last.globals[n]
    /\ pc = "done" /\ input = LetTwice =>
          /\ result = Ok
          /\ DOMAIN globals = {X}
          /\ globals[X] = NumberValue(RatInt(2))

\* `let x = x + 1;` has run with x and y bound: x has a new value, y has not
LetAlwaysBindsWitness ==
    /\ last.k = "Let"
    /\ last.stmt.name \in DOMAIN last.globals
    /\ Cardinality(DOMAIN last.globals) = 2
    /\ result = NoResult
    /\ globals[last.stmt.name] # last.globals[last.stmt.name]

\* C7: dividing a Number by a Number equal to zero fails with division by
\* zero for every dividend, 0 included, and binds nothing; dividing by a
\* nonzero Number succeeds with the quotient; `let result = 1 / 0.0;` fails
\* the same way
DivisionByZeroFails ==
    /\ pc = "done" /\ input \in DivSources =>
          \E i \in Span(DivOperands), j \in Span(DivOperands) :
              /\ input = LetResult(Bin(DivOperands[i], "Divide", DivOperands[j]))
              /\ \E l \in {evaluate_expr(<<>>, DivOperands[i])},
                    r \in {evaluate_expr(<<>>, DivOperands[j])} :
                     /\ l.ok /\ r.ok
                     /\ l.val.t = "Number" /\ r.val.t = "Number"
                     /\ IF r.val.n = RatInt(0)
                        THEN result = Err(DivisionByZero) /\ globals = <<>>
                        ELSE /\ result = Ok
                             /\ DOMAIN globals = {ResultName}
                             /\ globals[ResultName] =
                                    NumberValue(RatDiv(l.val.n, r.val.n))
    /\ pc = "done" /\ input = DivideByZeroPointZero =>
          result = Err(DivisionByZero) /\ globals = <<>>

\* `let result = 0 / 0;` has failed with division by zero
DivisionByZeroFailsWitness ==
    /\ pc = "done"
    /\ input = LetResult(Bin(Num(0), "Divide", Num(0)))
    /\ result = Err(DivisionByZero)
    /\ globals = <<>>

\* Boolean true, a nonzero Number, a non-empty String
Truthy(value) ==
    \/ value.t = "Boolean" /\ value.b
    \/ value.t = "Number" /\ value.n # RatInt(0)
    \/ value.t = "String" /\ Len(value.s) > 0

\* C8: an If whose condition evaluates goes on, in one step that changes
\* neither the environment nor the prints, with exactly its then-branch when
\* the condition is truthy, exactly its else-branch when it is falsy and
\* there is one, and nothing otherwise; the If's activation is gone, so the
\* condition is not evaluated again;
\* `let x = 0; if (x) { print("a"); } else { print("b"); }` prints only b
IfRunsOneBranch ==
    /\ last.k = "If" =>
          \E val \in {evaluate_expr(last.globals, last.stmt.condition)} :
              val.ok =>
                  /\ result = NoResult
                  /\ globals = last.globals
                  /\ stdout = last.stdout
                  /\ frames =
                        IF Truthy(val.val)
                        THEN Append(Pop(last.frames), StmtFrame(last.stmt.then_stmt))
                        ELSE IF last.stmt.else_stmt # <<>>
                        THEN Append(Pop(last.frames),
                                    StmtFrame(last.stmt.else_stmt[1]))
                        ELSE Pop(last.frames)
    /\ pc = "done" /\ input = IfExample =>
          result = Ok /\ stdout = <<<<"b">>>> \o Banner

\* an If with an else-branch and an empty String for its condition goes on
\* with the else-branch
IfRunsOneBranchWitness ==
    /\ last.k = "If"
    /\ last.stmt.condition = Str(<<>>)
    /\ last.stmt.else_stmt # <<>>
    /\ frames = Append(Pop(last.frames), StmtFrame(last.stmt.else_stmt[1]))

\* the lines 0-based counting from x0 up to n - 1 prints
Counted(x0, n) ==
    [i \in 1..(IF x0 < n THEN n - x0 ELSE 0) |-> NatText(x0 + i - 1)]

\* the run of `let x = x0; while (x < n) { print(x); x = x + 1; }` has
\* returned Ok, with x0 .. n - 1 printed in this order and x = n, or with
\* nothing printed and x = x0 when x0 >= n
CountingLoopDone ==
    /\ pc = "done"
    /\ result = Ok
    /\ \E x0 \in 0..MaxCount, n \in 0..MaxCount :
          /\ input = StmtsText(CountingLoop(x0, n))
          /\ stdout = Counted(x0, n) \o Banner
          /\ DOMAIN globals = {X}
          /\ globals[X] = NumberValue(RatInt(IF x0 < n THEN n ELSE x0))

BooleanOperandsFail ==
    /\ pc = "done" /\ input \in TypeSources =>
          /\ Len(ast) = 1 /\ ast[1].k = "Let"
          /\ ast[1].value.k = "Binary" =>
                \E l \in {evaluate_expr(<<>>, ast[1].value.left)} :
                    l.ok =>
                        \E r \in {evaluate_expr(<<>>, ast[1].value.right)} :
                            r.ok /\ "Boolean" \in {l.val.t, r.val.t} =>
                                result = Err(InvalidOperands) /\ globals = <<>>
          /\ ast[1].value.k = "Unary" =>
                \E o \in {evaluate_expr(<<>>, ast[1].value.operand)} :
                    o.ok /\ o.val.t \in {"Boolean", "String"} =>
                        result = Err(InvalidOperand) /\ globals = <<>>
    /\ pc = "done" /\ input \in ChainSources =>
          result = Err(InvalidOperands) /\ globals = <<>>

\* `let result = 0 < 1 < 2;`, whose left operand is true, has failed with the
\* invalid-operands error
BooleanOperandsFailWitness ==
    /\ pc = "done"
    /\ input = ChainText(0, 1, 2)
    /\ ast = <<LetStmt(ResultName,
                       Bin(Bin(Num(0), "Less", Num(1)), "Less", Num(2)))>>
    /\ result = Err(InvalidOperands)

\* the errors of the String/Number arms
InvalidStringNumber == <<"Invalid operation for string and number">>

InvalidNumberString == <<"Invalid operation for number and string">>

\* C11 as stated: for a String s and a Number n with zero fractional part
\* `s + n` is s followed by the integer decimal text of n and `n + s` is that
\* text followed by s; every other operator between a String and a Number
\* fails with an invalid-operation error
ConcatenationAsStated ==
    /\ pc = "done" /\ input \in ConcatSources =>
          \A s \in ConcatStrings, i \in Span(IntegralLiterals) :
              /\ input = ConcatText(Quoted(s), IntegralLiterals[i][1]) =>
                    /\ result = Ok
                    /\ globals[ResultName] = StringValue(s \o IntegralLiterals[i][2])
              /\ input = ConcatText(IntegralLiterals[i][1], Quoted(s)) =>
                    /\ result = Ok
                    /\ globals[ResultName] = StringValue(IntegralLiterals[i][2] \o s)
    /\ pc = "done" /\ input \in TypeSources =>
          \A op \in BinaryOps \ {"Add"} :
              /\ input = LetResult(Bin(Str(<<"a">>), op, Num(1))) =>
                    result = Err(InvalidStringNumber)
              /\ input = LetResult(Bin(Num(1), op, Str(<<"a">>))) =>
                    result = Err(InvalidNumberString)

\* the scanner ended by a panic
Panic == result # NoResult /\ result[1] = "Panic"

\* the token sequence tokenize returned
Tokenized == pc # "tokenize" /\ ~Panic

\* C12: when scanning hits no fatal lexical error the sequence returned by
\* tokenize holds exactly one Eof token, as its last element (and none while
\* the loop still runs), and a further next_token returns Eof again and
\* leaves the scanner's position and line as they are
EndsWithOneEof ==
    /\ \A i \in 1..Len(tokens) :
          tokens[i].token_type = "Eof" <=> Tokenized /\ i = Len(tokens)
    /\ Tokenized =>
          /\ tokens # <<>>
          /\ \E t \in {next_token(input, position, line)} :
                /\ ~t.panic
                /\ t.token = Token("Eof", <<>>, line)
                /\ t.position = position /\ t.line = line

\* scanning `x` newline `//` newline returned x and Eof, the cursor at the end
\* of the text on line 3
EndsWithOneEofWitness ==
    /\ Tokenized
    /\ input = <<"x", "\n", "/", "/", "\n">>
    /\ Len(tokens) = 2 /\ position = 5 /\ line = 3

\* the text from its i-th character on, without the comments whose ordinal
\* is in `removed`: a comment opens at `//` outside a string literal and runs
\* up to the newline, which is kept; a string literal opens at a quote and
\* runs to the next quote that no backslash precedes, or to the end of the
\* text. `mode` tells where the i-th character lies and n counts the comments
\* opened so far
RECURSIVE Uncommented(_, _, _, _, _)
Uncommented(text, i, mode, n, removed) ==
    IF i > Len(text) THEN <<>>
    ELSE IF mode = "code" /\ text[i] = "/" /\ i < Len(text) /\ text[i + 1] = "/"
    THEN (IF n + 1 \in removed THEN <<>> ELSE <<"/", "/">>)
         \o Uncommented(text, i + 2, "comment", n + 1, removed)
    ELSE IF mode = "code"
    THEN <<text[i]>>
         \o Uncommented(text, i + 1, IF text[i] = "\"" THEN "string" ELSE "code",
                        n, removed)
    ELSE IF mode = "comment"
    THEN (IF text[i] # "\n" /\ n \in removed THEN <<>> ELSE <<text[i]>>)
         \o Uncommented(text, i + 1, IF text[i] = "\n" THEN "code" ELSE "comment",
                        n, removed)
    ELSE IF text[i] = "\\" /\ i < Len(text)
    THEN <<text[i], text[i + 1]>> \o Uncommented(text, i + 2, "string", n, removed)
    ELSE <<text[i]>>
         \o Uncommented(text, i + 1, IF text[i] = "\"" THEN "code" ELSE "string",
                        n, removed)

\* the comments of a text, counted the same way
RECURSIVE CommentCount(_, _, _)
CommentCount(text, i, mode) ==
    IF i > Len(text) THEN 0
    ELSE IF mode = "code" /\ text[i] = "/" /\ i < Len(text) /\ text[i + 1] = "/"
    THEN 1 + CommentCount(text, i + 2, "comment")
    ELSE IF mode = "code"
    THEN CommentCount(text, i + 1, IF text[i] = "\"" THEN "string" ELSE "code")
    ELSE IF mode = "comment"
    THEN CommentCount(text, i + 1, IF text[i] = "\n" THEN "code" ELSE "comment")
    ELSE IF text[i] = "\\" /\ i < Len(text)
    THEN CommentCount(text, i + 2, "string")
    ELSE CommentCount(text, i + 1, IF text[i] = "\"" THEN "code" ELSE "string")

\* a text in quotes with neither a quote nor a backslash inside
PlainLiteral(text) ==
    /\ Len(text) >= 2 /\ text[1] = "\"" /\ text[Len(text)] = "\""
    /\ \A i \in 2..(Len(text) - 1) : text[i] \notin {"\"", "\\"}

Newlines(text) == Cardinality({i \in Span(text) : text[i] = "\n"})

\* C13: the tokens tokenize returned (kinds, payloads, lines) are the tokens
\* of the text with any of its comments taken out up to the newline, and a
\* text in quotes is one String token with every character between the
\* quotes, `//` included
CommentsProduceNoTokens ==
    pc = "parse" =>
        /\ \A removed \in SUBSET (1..CommentCount(input, 1, "code")) :
              \E t \in {tokenize(Uncommented(input, 1, "code", 0, removed))} :
                  ~t.panic /\ t.tokens = tokens
        /\ PlainLiteral(input) =>
              tokens = <<Token("String", SubSeq(input, 2, Len(input) - 1), 1),
                         Token("Eof", <<>>, 1 + Newlines(input))>>

\* tokenize returned the tokens of a text with two comments, one of them
\* after a string literal that holds `//`
CommentsProduceNoTokensWitness ==
    /\ pc = "parse" /\ input = CommentsExample
    /\ CommentCount(input, 1, "code") = 2
    /\ Len(tokens) = 16
    /\ tokens[13] = Token("String", <<"/", "/">>, 3)

\* C14: every token the scanner returned, Eof included, carries 1 plus the
\* number of newlines before its first character, wherever they are (inside
\* earlier string literals, after comments); a string literal carries the
\* line of its opening quote
TokensCarryStartLine ==
    pc = "parse" \/ Panic =>
        \E starts \in {token_starts(input, 0, 1)} :
            /\ Len(starts) = Len(tokens)
            /\ \A i \in Span(tokens) :
                  /\ tokens[i].line = 1 + Newlines(SubSeq(input, 1, starts[i]))
                  /\ tokens[i].token_type = "String" =>
                        input[starts[i] + 1] = "\""

\* the string literal that opens on line 2 and closes on line 3 carries 2,
\* the tokens after the comment carry 4 and Eof, after the last newline, 5
TokensCarryStartLineWitness ==
    /\ pc = "parse" /\ input = LinesExample
    /\ Len(tokens) = 11
    /\ tokens[3] = Token("String", <<"a", "\n", "b">>, 2)
    /\ tokens[4].line = 3 /\ tokens[6].line = 4 /\ tokens[11].line = 5

\* parse returned an error
ParseError == result # NoResult /\ result[1] = "ParseError"

\* C15: when parse fails it returns the first error and no statement; the
\* error carries the line of the token the cursor is on, which is the token
\* that was rejected: for each text of ParseErrors the message, the cursor
\* and the line are the ones listed
ParseStopsAtFirstError ==
    /\ ParseError =>
          /\ ast = <<>> /\ frames = <<>> /\ last = NoStep
          /\ current < Len(tokens)
          /\ result[2][2] = tokens[current + 1].line
    /\ \A i \in Span(ParseErrors) :
          input = ParseErrors[i][1] /\ pc \in {"report", "done"} =>
              /\ result = <<"ParseError", <<ParseErrors[i][2], ParseErrors[i][4]>>>>
              /\ current = ParseErrors[i][3]

\* `print(1);` then `let = 1;` on line 2: the parser gave up on the `=`
ParseStopsAtFirstErrorWitness ==
    /\ ParseError /\ input = ParseErrors[1][1]
    /\ tokens[current + 1] = Token("Assign", <<>>, 2)
    /\ result[2] = <<"Expected identifier after 'let'", 2>>

\* the run ended in a fatal error
EndedInError == pc = "done" /\ result # Ok

\* the one message of the error the run ended in
ErrorMessage ==
    CASE result[1] = "Err" -> <<"Runtime error", result[2]>>
      [] result[1] = "ParseError" -> <<"Parse error", result[2]>>
      [] result[1] = "Panic" -> <<"panicked", result[2]>>

\* C16 as stated: a run that ends in a fatal error emits exactly one error
\* message and there is no output for the statements executed before the
\* error
ErrorRunsPrintNothing ==
    EndedInError => stderr = <<ErrorMessage>> /\ stdout = <<>>

\* C16: a run that ends in a fatal error emits exactly one message, on
\* standard error, and nothing else there; no run emits a message before it
\* ends or when it succeeds. Standard output keeps the lines printed by the
\* statements executed before the error, which are the lines it held when the
\* failing statement started, and gets nothing more: no line from the failing
\* statement and no banner (after a lexical or a parse error it is empty)
OneErrorMessage ==
    /\ EndedInError =>
          /\ stderr = <<ErrorMessage>>
          /\ stdout = IF result[1] = "Err" THEN last.stdout ELSE <<>>
    /\ ~EndedInError => stderr = <<>>

\* a run printed a line and then ended in a runtime error
OneErrorMessageWitness ==
    /\ EndedInError /\ result[1] = "Err"
    /\ Len(stdout) >= 1 /\ Len(stderr) = 1

\* no statement has been executed: nothing bound, nothing printed
NothingExecuted == last = NoStep /\ globals = <<>> /\ stdout = <<>>

\* the parser has not been started
NothingParsed == current = 0 /\ ast = <<>> /\ frames = <<>>

\* C17: the stages run one after the other. While tokenize runs nothing is
\* parsed or executed, and after a fatal lexical error nothing ever is; while
\* the parser has not returned, and after a parse error, even one that
\* follows valid statements, no statement is executed and nothing is printed;
\* a statement is executed only after tokenize returned the whole sequence
\* and parse accepted all of it, the cursor on the closing Eof
StagesInOrder ==
    /\ pc = "tokenize" \/ Panic => NothingParsed /\ NothingExecuted
    /\ pc = "parse" \/ ParseError => NothingExecuted /\ frames = <<>>
    /\ ~NothingExecuted =>
          /\ Tokenized /\ ~ParseError /\ pc \in {"interpret", "report", "done"}
          /\ tokens[Len(tokens)].token_type = "Eof"
          /\ current = Len(tokens) - 1

\* `print(1);` then `let = 1;`: the run ended in the parse error with
\* nothing printed
StagesInOrderWitness ==
    /\ pc = "done" /\ ParseError /\ input = ParseErrors[1][1]
    /\ stdout = <<>> /\ Len(stderr) = 1

\* the cursors of the token sequence that are on an Identifier
IdentifierCursors ==
    {cur \in 0..(Len(tokens) - 1) : tokens[cur + 1].token_type = "Identifier"}

\* what committing to an assignment at `name =` returns: the error of the
\* value expression, parsed right after the `=`, or the missing `;`, or
\* Assignment{name, value} with the cursor after the `;`
Committed(cur) ==
    The({IF ~value.ok THEN value
         ELSE IF parser_peek(tokens, value.current).token_type # "Semicolon"
         THEN ParseErr("Expected ';' after assignment", tokens, value.current)
         ELSE ParseOk(AssignmentStmt(tokens[cur + 1].val, value.node),
                      value.current + 1) :
           value \in {expression(tokens, cur + 2)}})

\* C18: from a cursor on an identifier, statement commits to an assignment
\* exactly when the next token is `=` (the result is then the Assignment, or
\* the parse error of its value or of its `;`); in every other case, `==`
\* included, its result, statement or error and cursor, is the result of
\* parsing an expression statement from that same cursor
IdentifierStatements ==
    pc = "parse" =>
        \A cur \in IdentifierCursors :
            \E r \in {statement(tokens, cur)} :
                /\ parser_peek(tokens, cur + 1).token_type = "Assign" =>
                      r = Committed(cur)
                /\ parser_peek(tokens, cur + 1).token_type # "Assign" =>
                      r = expression_statement(tokens, cur)
                /\ r.ok =>
                      (r.node.k = "Assignment"
                          <=> parser_peek(tokens, cur + 1).token_type = "Assign")

\* `x == 1 ;` is about to be parsed: an identifier followed by `==`, which
\* parses to the expression statement x == 1
IdentifierStatementsWitness ==
    /\ pc = "parse" /\ input = <<"x", " ", "=", "=", " ", "1", " ", ";">>
    /\ statement(tokens, 0)
         = ParseOk(ExpressionStmt(BinaryExpr(IdentifierExpr(X), "Equal",
                                             NumberExpr(RatInt(1)))), 4)

\* the token `=`, `<`, `>` stand for alone, and with `!` when `=` follows
OneCharacter(ch) ==
    CASE ch = "=" -> "Assign" [] ch = "<" -> "Less" [] ch = ">" -> "Greater"

TwoCharacters(ch) ==
    CASE ch = "=" -> "Equal" [] ch = "!" -> "NotEqual"
      [] ch = "<" -> "LessEqual" [] ch = ">" -> "GreaterEqual"

\* maximal munch over a text of operator characters, spaces and `;`, from its
\* i-th character: the kinds of the tokens, closed by Eof, or by "fatal" at a
\* `!` that no `=` follows
RECURSIVE Munch(_, _)
Munch(text, i) ==
    IF i > Len(text) THEN <<"Eof">>
    ELSE IF text[i] = " " THEN Munch(text, i + 1)
    ELSE IF text[i] = ";" THEN <<"Semicolon">> \o Munch(text, i + 1)
    ELSE IF i < Len(text) /\ text[i + 1] = "="
    THEN <<TwoCharacters(text[i])>> \o Munch(text, i + 2)
    ELSE IF text[i] = "!" THEN <<"fatal">>
    ELSE <<OneCharacter(text[i])>> \o Munch(text, i + 1)

Kinds(toks) == [i \in Span(toks) |-> toks[i].token_type]

\* C19: on a text of operator characters the scanner returns the tokens of
\* maximal munch, `==`, `!=`, `<=`, `>=` one token each and `=`, `<`, `>`
\* alone the one-character token; at a `!` that no `=` follows it panics
\* after the tokens before it, tokenize returns no sequence and the parser
\* is never started
OperatorsByMaximalMunch ==
    input \in OperatorSources /\ (pc = "parse" \/ Panic) =>
        \E m \in {Munch(input, 1)} :
            IF m[Len(m)] = "fatal"
            THEN /\ Panic /\ pc = "done"
                 /\ result[2] = <<"Unexpected character", "!", 1>>
                 /\ Kinds(tokens) = SubSeq(m, 1, Len(m) - 1)
                 /\ tokenize(input).panic /\ tokenize(input).tokens = <<>>
                 /\ NothingParsed
            ELSE /\ ~Panic
                 /\ Kinds(tokens) = m
                 /\ tokenize(input).tokens = tokens

\* `>==!`: `>=` and `=` were scanned, then the scanner panicked at the `!`
OperatorsByMaximalMunchWitness ==
    /\ Panic /\ input = <<">", "=", "=", "!">>
    /\ Kinds(tokens) = <<"GreaterEqual", "Assign">>

\* what evaluating each of OrderOperands alone ends in, nothing being bound:
\* its error, or <<>> when it evaluates
OperandErrors ==
    <<<<UndefinedVariable(X)>>, <<UndefinedVariable(Y)>>, <<DivisionByZero>>,
      <<InvalidOperand>>, <<>>, <<>>>>

\* C20: binary operands are evaluated left first. When the left operand
\* fails its error is the result, whether or not the right one would fail
\* too; when only the right operand fails the result is its error, also
\* where the operator does not fit the left operand's type (`(1 < 2) - y`);
\* an operator/type mismatch is the result only when both operands evaluate
\* (here, when one of them is the Boolean 1 < 2)
LeftOperandFirst ==
    pc = "done" /\ input \in OrderSources =>
        \A i \in Span(OrderOperands), j \in Span(OrderOperands), op \in BinaryOps :
            input = LetResult(Bin(OrderOperands[i], op, OrderOperands[j])) =>
                IF OperandErrors[i] # <<>> THEN result = Err(OperandErrors[i][1])
                ELSE IF OperandErrors[j] # <<>>
                THEN result = Err(OperandErrors[j][1])
                ELSE IF i = 6 /\ j = 6 THEN result = Ok
                ELSE result = Err(InvalidOperands)

\* `let result = (1 / 0) + x;` ended in division by zero, the left operand's
\* error, although x is unbound
LeftOperandFirstWitness ==
    /\ pc = "done"
    /\ input = LetResult(Bin(OrderOperands[3], "Add", OrderOperands[1]))
    /\ result = Err(DivisionByZero)

\* the latest step ran a statement of one of these kinds
Ran(kinds) == last.k \in kinds

\* C21: evaluating an expression never writes the environment. The step of
\* an expression statement, of a Print, and of an If or a While (which
\* evaluates the condition) leaves every binding as it was, whether the
\* evaluation succeeds or fails, and so do the steps that only move to the
\* next statement; when a step has changed the environment it ran a Let or
\* an Assignment
EvaluationWritesNothing ==
    /\ Ran({"Expression", "Print", "If", "While", "Block", "for"}) =>
          globals = last.globals
    /\ last = NoStep => globals = <<>>

\* the condition of an If or a While, or the expression of a Print, failed
\* with a name bound, and the binding is as it was
EvaluationWritesNothingWitness ==
    /\ pc = "done" /\ result # Ok
    /\ Ran({"If", "While", "Print"})
    /\ DOMAIN last.globals # {}
    /\ globals = last.globals

\* the inner If of the dangling-else texts
InnerIf(b) ==
    IfStmt(b, PrintStmt(Num(1)), <<PrintStmt(Num(2))>>)

\* the line the inner If prints
InnerLine(truthy) == IF truthy THEN <<<<"1">>>> ELSE <<<<"2">>>>

\* C22: an else attaches to the nearest preceding if that has no else yet.
\* `if (a) if (b) print(1); else print(2);` parses to an outer If without
\* else-branch around the inner If with both branches, so it prints nothing
\* when a is falsy and 1 or 2 by b otherwise; with a second else after it,
\* that one is the outer If's, and 3 is printed when a is falsy
ElseAttachesToNearestIf ==
    pc \in {"interpret", "report", "done"} /\ input \in DanglingSources =>
        \A i \in Span(DanglingConds), j \in Span(DanglingConds) :
            LET a == DanglingConds[i]
                b == DanglingConds[j]
            IN  /\ input = DanglingText(a[1], b[1]) =>
                      /\ ast = <<IfStmt(a[2], InnerIf(b[2]), <<>>)>>
                      /\ pc = "done" =>
                            /\ result = Ok
                            /\ stdout = (IF a[3] THEN InnerLine(b[3]) ELSE <<>>)
                                         \o Banner
                /\ input = DanglingTwiceText(a[1], b[1]) =>
                      /\ ast = <<IfStmt(a[2], InnerIf(b[2]),
                                        <<PrintStmt(Num(3))>>)>>
                      /\ pc = "done" =>
                            /\ result = Ok
                            /\ stdout = (IF a[3] THEN InnerLine(b[3])
                                         ELSE <<<<"3">>>>) \o Banner

\* `if (0) if (1) print(1); else print(2);` ran and printed nothing
ElseAttachesToNearestIfWitness ==
    /\ pc = "done" /\ input = DanglingText(<<"0">>, <<"1">>)
    /\ ast[1].else_stmt = <<>> /\ ast[1].then_stmt.else_stmt # <<>>
    /\ stdout = Banner

\* the index of the quote that closes a string literal whose characters
\* start at i, a backslash protecting the character after it, or 0 when the
\* text ends first
RECURSIVE ClosingQuote(_, _)
ClosingQuote(text, i) ==
    IF i > Len(text) THEN 0
    ELSE IF text[i] = "\\" THEN ClosingQuote(text, i + 2)
    ELSE IF text[i] = "\"" THEN i
    ELSE ClosingQuote(text, i + 1)

\* the text is one unterminated string literal
Unterminated ==
    input # <<>> /\ input[1] = "\"" /\ ClosingQuote(input, 2) = 0

\* C23: scanning terminates. The scanner never moves past the end of the
\* text; every turn of the loop of tokenize that returns a token other than
\* Eof has moved it forward by at least one character and pushed that one
\* token; and the loop ends, with a sequence closed by Eof or with a panic.
\* An unterminated string literal, also one that ends in a backslash, is
\* read to the end of the text without a panic and gives one String token
\* and then Eof
ScanningTerminates ==
    /\ [](position <= Len(input))
    /\ [][pc = "tokenize" /\ pc' = "tokenize" =>
              /\ position' > position
              /\ Len(tokens') = Len(tokens) + 1
              /\ tokens'[Len(tokens')].token_type # "Eof"]_vars
    /\ (pc = "tokenize") ~> (Panic \/ (Tokenized /\ tokens[Len(tokens)].token_type = "Eof"))
    /\ [](Unterminated /\ pc # "tokenize" =>
              /\ ~Panic
              /\ Len(tokens) = 2
              /\ tokens[1].token_type = "String" /\ tokens[2].token_type = "Eof"
              /\ position = Len(input))
    /\ [](pc # "tokenize" /\ input = <<"\"", "x", "\\">> =>
              tokens[1] = Token("String", <<"x">>, 1))

\* `"x\`, an unterminated string literal that ends in a backslash, was read
\* to the end: the String x, then Eof
ScanningTerminatesWitness ==
    /\ pc = "parse" /\ input = <<"\"", "x", "\\">>
    /\ Unterminated /\ position = 3
    /\ tokens = <<Token("String", <<"x">>, 1), Token("Eof", <<>>, 1)>>

\* the error `x = value;` ends in for each of AssignValues, nothing being
\* bound
AssignErrors ==
    <<DivisionByZero, UndefinedVariable(Y), InvalidOperand, UndefinedVariable(Y),
      UndefinedVariable(X), UndefinedVariable(X)>>

\* C24: an Assignment evaluates its value before it looks for the name. When
\* the value fails the Assignment fails with the value's error, also when
\* the name is unbound (`x = 1 / 0;` is a division by zero, `x = y;`
\* reports y); the undefined-variable error for the name is returned when
\* the value evaluated and the name is unbound
ValueBeforeName ==
    /\ last.k = "Assignment" /\ last.stmt.name \notin DOMAIN last.globals =>
          \E val \in {evaluate_expr(last.globals, last.stmt.value)} :
              result = Err(IF val.ok THEN UndefinedVariable(last.stmt.name)
                           ELSE val.err)
    /\ \A i \in Span(AssignValues) :
          pc = "done" /\ input = AssignText(AssignValues[i]) =>
              result = Err(AssignErrors[i]) /\ globals = <<>>

\* `x = y;` with x and y unbound has failed with undefined variable y
ValueBeforeNameWitness ==
    /\ pc = "done" /\ input = AssignText(AssignValues[2])
    /\ last.k = "Assignment" /\ last.stmt.name = X
    /\ result = Err(UndefinedVariable(Y))

\* the statement the interpreter is about to execute
Current == Top(frames).stmt

\* the step ended in a runtime error
StepFailed == result' # NoResult /\ result'[1] = "Err"

\* the expression a statement evaluates, for the kinds that fail only when
\* it does
Evaluated(stmt) ==
    CASE stmt.k \in {"Expression", "Print"} -> <<stmt.expr>>
      [] stmt.k = "Let" -> <<stmt.value>>
      [] stmt.k \in {"If", "While"} -> <<stmt.condition>>
      [] OTHER -> <<>>

\* the statement about to run reads nothing but the one name
ReadsOnly(name) ==
    /\ pc = "interpret" /\ Top(frames).k = "stmt"
    /\ Evaluated(Current) = <<IdentifierExpr(name)>>

\* C25: declare before use over a whole run. The environment is empty until
\* the interpreter starts; each step of the interpreter leaves the set of
\* bound names as it was, except that a Let that completes without error
\* adds its name, so the set never shrinks, an Assignment never changes it,
\* and a name is bound exactly when a Let for it has completed earlier in
\* the run. Reading a name succeeds exactly when it is bound, and an
\* Assignment of a literal fails on its name exactly when it is not
DeclareBeforeUse ==
    /\ [](pc \in {"tokenize", "parse"} => globals = <<>>)
    /\ [][pc # "interpret" => globals' = globals]_vars
    /\ [][pc = "interpret" =>
              DOMAIN globals' =
                  DOMAIN globals
                  \cup (IF AtStmt("Let") /\ ~StepFailed THEN {Current.name}
                        ELSE {})]_vars
    /\ [][\A name \in {X, Y, ResultName} :
              ReadsOnly(name) =>
                  /\ StepFailed <=> name \notin DOMAIN globals
                  /\ StepFailed => result' = Err(UndefinedVariable(name))]_vars
    /\ [][AtStmt("Assignment") /\ Current.value.k = "Number" =>
              /\ StepFailed <=> Current.name \notin DOMAIN globals
              /\ StepFailed => result' = Err(UndefinedVariable(Current.name))]_vars

\* `let x = 1; { x = 2; let y = 3; } print(x); print(y);` has run: x and y,
\* each declared by a Let that completed, are the bound names
DeclareBeforeUseWitness ==
    /\ pc = "done" /\ input = ScopeExample
    /\ result = Ok
    /\ DOMAIN globals = {X, Y}

\* the error each of LetFails ends in and the value x is left with, if any
LetFailOutcomes ==
    <<<<UndefinedVariable(X), <<>>>>,
      <<DivisionByZero, <<NumberValue(RatInt(1))>>>>,
      <<UndefinedVariable(Y), <<NumberValue(RatInt(1))>>>>,
      <<InvalidOperand, <<NumberValue(RatInt(1))>>>>>>

\* C26: a Let whose initializer fails leaves the environment as it was: it
\* fails with the initializer's error, binds its name to nothing when the
\* name was unbound and leaves it its value when it was bound;
\* `let x = x + 1;` with x unbound fails with undefined variable x and binds
\* nothing
FailedLetBindsNothing ==
    /\ last.k = "Let" =>
          \E val \in {evaluate_expr(last.globals, last.stmt.value)} :
              ~val.ok => FailedWith(val.err) /\ globals = last.globals
    /\ \A i \in Span(LetFails) :
          pc = "done" /\ input = LetFails[i] =>
              /\ result = Err(LetFailOutcomes[i][1])
              /\ globals = IF LetFailOutcomes[i][2] = <<>> THEN <<>>
                            ELSE [n \in {X} |-> LetFailOutcomes[i][2][1]]

\* `let x = x / 0;` has failed with x bound to 1, and x is still 1
FailedLetBindsNothingWitness ==
    /\ pc = "done" /\ input = LetFails[2]
    /\ last.k = "Let" /\ last.stmt.name = X
    /\ result = Err(DivisionByZero)
    /\ globals[X] = NumberValue(RatInt(1))

\* the text ends inside a string literal: the mode at its end, scanning code,
\* comments and string literals from the i-th character on, is "string"
RECURSIVE EndsInString(_, _, _)
EndsInString(text, i, mode) ==
    IF i > Len(text) THEN mode = "string"
    ELSE IF mode = "code" /\ text[i] = "/" /\ i < Len(text) /\ text[i + 1] = "/"
    THEN EndsInString(text, i + 2, "comment")
    ELSE IF mode = "code"
    THEN EndsInString(text, i + 1, IF text[i] = "\"" THEN "string" ELSE "code")
    ELSE IF mode = "comment"
    THEN EndsInString(text, i + 1, IF text[i] = "\n" THEN "code" ELSE "comment")
    ELSE IF text[i] = "\\"
    THEN EndsInString(text, i + 2, "string")
    ELSE EndsInString(text, i + 1, IF text[i] = "\"" THEN "code" ELSE "string")

\* parse has returned a statement list
Parsed == pc \in {"interpret", "report", "done"} /\ ~ParseError /\ ~Panic

\* C27: every statement the parser accepts, from any cursor of the token
\* sequence, ends with a `;` or a `}`. So a sequence whose last token before
\* Eof is a String, a Number or an Identifier is never parsed successfully,
\* and a text with an unterminated string literal that is scanned without
\* panic ends in a parse error with no statement executed
StatementsEndClosed ==
    /\ pc = "parse" =>
          \A cur \in 0..(Len(tokens) - 1) :
              \E r \in {statement(tokens, cur)} :
                  r.ok =>
                      /\ r.current >= 1
                      /\ tokens[r.current].token_type
                            \in {"Semicolon", "RightBrace"}
    /\ Parsed /\ Len(tokens) >= 2 =>
          tokens[Len(tokens) - 1].token_type \in {"Semicolon", "RightBrace"}
    /\ Tokenized /\ pc # "parse" /\ EndsInString(input, 1, "code") =>
          ParseError /\ NothingExecuted

\* `print(1); print("a);` ran: the String that runs to the end of the text is
\* the last token before Eof, parse returned an error and nothing was printed
StatementsEndClosedWitness ==
    /\ pc = "done" /\ input = UnterminatedAfterPrint
    /\ EndsInString(input, 1, "code")
    /\ tokens[Len(tokens) - 1] = Token("String", <<"a", ")", ";">>, 1)
    /\ ParseError /\ stdout = <<>>

\* the token sequence and the sequence without its closing Eof
WithAndWithoutEof == {tokens, SubSeq(tokens, 1, Len(tokens) - 1)}

\* C28: parsing terminates. On the token sequence tokenize returned and on
\* the same sequence without its Eof, statement from any cursor returns with
\* the cursor at or after the one it started from and within the sequence,
\* and after it by at least one token when it succeeds; parse returns either
\* a statement list with the cursor on Eof (the end of a sequence without
\* Eof) or an error; and in a run parse, once started, returns one of the two
ParsingTerminates ==
    /\ [](pc = "parse" =>
            \A toks \in WithAndWithoutEof :
                /\ \A cur \in 0..Len(toks) :
                      \E r \in {statement(toks, cur)} :
                          /\ r.current \in cur..Len(toks)
                          /\ r.ok => r.current > cur
                          /\ ~r.ok => r.err # <<>>
                /\ \E r \in {parse(toks, 0)} :
                      /\ r.current \in 0..Len(toks)
                      /\ r.ok => parser_peek(toks, r.current).token_type = "Eof"
                      /\ ~r.ok => r.err # <<>>)
    /\ [](current \in 0..Len(tokens))
    /\ [][pc = "parse" =>
              \/ pc' = "interpret" /\ tokens[current' + 1].token_type = "Eof"
              \/ pc' = "report" /\ result'[1] = "ParseError"]_vars
    /\ (pc = "parse") ~> (ParseError \/ Parsed)

\* the parser returned the three statements of a program of 16 tokens, the
\* cursor on the Eof
ParsingTerminatesWitness ==
    /\ Parsed /\ input = CommentsExample
    /\ Len(ast) = 3 /\ current = 15
    /\ parse(SubSeq(tokens, 1, 15), 0).current = 15

====
